---- MODULE Spec2Model ----
(***************************************************************************)
(* A model of the anypay-rust event hub: the WebSocket session bus and     *)
(* its subscription registry (server.rs, session.rs, event_dispatcher.rs), *)
(* the invoice store operations (supabase.rs, invoices.rs) and the         *)
(* confirmation pipeline (confirmations.rs).                               *)
(***************************************************************************)
EXTENDS Integers, Sequences, FiniteSets, TLC

VARIABLES
    session,          \* the handler's local Session of each connection
    sessions,         \* AnypayEventsServer.sessions : HashMap<Uuid, Session>
    subscriptions,    \* EventDispatcher.subscriptions : HashMap<Subscription, HashSet<Uuid>>
    outbox,           \* each session's unbounded mpsc channel (sender -> writer task)
    writer,           \* each connection's spawned forwarding task
    invoices,         \* store table invoices, keyed by uid
    payment_options,  \* store table payment_options, rows in insertion order
    payments,         \* store table payments, keyed by id
    call,             \* each pipeline task's position in process_block / confirm_payment
    eventBus,         \* payment.confirmed events published on the internal bus
    writes,           \* history: per payment, the store writes confirm_payment has made
    prices,           \* store table prices: (base_currency, currency) -> value
    now,              \* Utc::now(), in minutes
    create,           \* each client's create_invoice call: its position and its result
    fetched,          \* each client's latest get_invoice: what it read and returned
    price_cache,      \* PRICE_CACHE : HashMap<String, Price>, keyed by currency
    coin_cache,       \* COIN_CACHE : Option<HashMap<String, Coin>>
    coin_task,        \* each task's position in get_coin / refresh_coins
    calc              \* the latest call of a unit function: its arguments and its result

busVars     == <<session, sessions, subscriptions, outbox, writer>>
storeVars   == <<invoices, payment_options>>
confirmVars == <<payments, call, eventBus, writes>>
coinVars    == <<coin_cache, coin_task>>
engineVars  == <<prices, now, create, fetched, price_cache, coinVars, calc>>
vars        == <<session, sessions, subscriptions, outbox, writer, invoices,
                 payment_options, payments, call, eventBus, writes,
                 prices, now, create, fetched, price_cache, coin_cache, coin_task,
                 calc>>

None == "none"

----------------------------------------------------------------------------
(* Bounds and the small sets inputs are drawn from *)

MaxOutbox == 2          \* responses waiting in a session's channel
MaxOptionRows == 4      \* rows the payment_options table can hold
MaxNow == 20            \* the clock stops here
TickMinutes == 10       \* minutes between two observations of the clock

SessionIds == {"s1", "s2"}                 \* Uuid::new_v4() of each connection
InvoiceUids == {"inv_1", "inv_2"}          \* "inv_" + generate_uid()
Subscription == [sub_type : {"invoice"}, id : InvoiceUids]

\* access_tokens.uid -> account_id
AccessTokens == [tok \in {"tok3", "tok5"} |-> IF tok = "tok3" THEN 3 ELSE 5]

\* the Authorization header of the handshake request
Headers == [scheme : {"Bearer ", "Basic "}, token : {"tok3", "tok5", "bad"}]

\* addresses an account can be paid at (store table addresses)
\* (account 21 is an accounts.id beyond 32 bits in the scaled width, see AsI32);
\* account 6 has two BTC addresses, account 7 an address in a currency without a price
Addresses == [acct \in {3, 4, 5, 6, 7, 21} |->
                IF acct = 3 THEN <<[chain |-> "BTC", currency |-> "BTC", value |-> "addr_btc"]>>
                ELSE IF acct = 4
                THEN <<[chain |-> "ETH", currency |-> "ETH", value |-> "addr_eth"]>>
                ELSE IF acct = 6
                THEN <<[chain |-> "BTC", currency |-> "BTC", value |-> "addr_btc"],
                       [chain |-> "BTC", currency |-> "BTC", value |-> "addr_btc2"]>>
                ELSE IF acct = 7
                THEN <<[chain |-> "XYZ", currency |-> "XYZ", value |-> "addr_xyz"],
                       [chain |-> "BTC", currency |-> "BTC", value |-> "addr_btc"]>>
                ELSE <<>>]

\* `x as i32`, with the 32-bit width scaled to 4 bits (-8 .. 7)
AsI32(x) == ((x + 8) % 16) - 8

----------------------------------------------------------------------------
(* HashMap helpers *)

MapInsert(m, k, v) == [x \in DOMAIN m \cup {k} |-> IF x = k THEN v ELSE m[x]]
MapRemove(m, k) == [x \in DOMAIN m \ {k} |-> m[x]]
EmptyMap == [x \in {} |-> None]

----------------------------------------------------------------------------
(* event_dispatcher.rs *)

\* a subscribe that overwrites the subscriber set: insert(subscription, {id})
SubscribeReplace(subs, sid, sub) == MapInsert(subs, sub, {sid})

\* EventDispatcher::subscribe: entry(subscription).or_insert_with(HashSet::new).insert(id)
Subscribe(subs, sid, sub) ==
    MapInsert(subs, sub, (IF sub \in DOMAIN subs THEN subs[sub] ELSE {}) \cup {sid})

\* a registry that keeps the emptied set
UnsubscribeKeepEmpty(subs, sid, sub) ==
    IF sub \in DOMAIN subs THEN MapInsert(subs, sub, subs[sub] \ {sid}) ELSE subs

\* EventDispatcher::unsubscribe: remove the id; drop the entry when the set is empty
Unsubscribe(subs, sid, sub) ==
    IF sub \in DOMAIN subs
    THEN IF subs[sub] \ {sid} = {}
         THEN MapRemove(subs, sub)
         ELSE MapInsert(subs, sub, subs[sub] \ {sid})
    ELSE subs

\* EventDispatcher::get_subscribers: the cloned set, or the empty set
GetSubscribers(subs, sub) == IF sub \in DOMAIN subs THEN subs[sub] ELSE {}

----------------------------------------------------------------------------
(* Response envelopes of handle_message (server.rs) *)

NoData == [kind |-> "none"]
Resp(status, message, data) ==
    [type |-> None, status |-> status, message |-> message, data |-> data]

InvalidFormatResponse == Resp("error", "Invalid message format", NoData)
UnauthorizedCreateResponse ==
    Resp("error",
         "Unauthorized: API key required: See https://www.anypayx.com/developer/websockets/authentication",
         NoData)
UnauthorizedCancelResponse == Resp("error", "Unauthorized", NoData)
PongResponse == [type |-> "pong", status |-> "success", message |-> None,
                 data |-> [kind |-> "timestamp"]]

----------------------------------------------------------------------------
(* Store operations (supabase.rs), as the rows they read and write *)

RowsOf(uid) == SelectSeq(payment_options, LAMBDA o : o.invoice_uid = uid)

----------------------------------------------------------------------------
(* Prices, conversion and smallest units (prices.rs, payment/mod.rs).        *)
(* A decimal number is an integer counting units of 10^-MAX_DECIMALS; the   *)
(* program's digit counts are scaled down so that amounts stay small:       *)
(* 8 decimal digits become 2, precision 18 becomes 4, precision 6 becomes 1 *)
(* and the 19 digits of i64::MAX become 5.                                  *)

MAX_DECIMALS == 2       \* prices.rs MAX_DECIMALS = 8
DivisionDigits == 4     \* digits BigDecimal division keeps (100 in the library)
I64Max == 92233         \* i64::MAX = 9223372036854775807
ExpiryMinutes == 15     \* Duration::minutes(15)

RECURSIVE Pow10(_)
Pow10(n) == IF n = 0 THEN 1 ELSE 10 * Pow10(n - 1)

Currencies == {"USD", "BTC", "ETH", "BSV", "XYZ"}

\* SupabaseClient::find_price: the value of the row with these two columns, if any
FindPrice(base_currency, currency) ==
    IF <<base_currency, currency>> \in DOMAIN prices
    THEN {prices[<<base_currency, currency>>]} ELSE {}

\* BigDecimal 1 / value, rounded half up at the last digit the division keeps
Reciprocal(value) ==
    LET num == Pow10(MAX_DECIMALS) * Pow10(DivisionDigits)
    IN (2 * num + value) \div (2 * value)

\* a conversion that looks the inverse price up first
ConvertInverseFirst(req) ==
    LET direct == FindPrice(req.base_currency, req.quote_currency)
        inverse == FindPrice(req.quote_currency, req.base_currency)
    IN IF inverse # {}
       THEN [kind |-> "ok", message |-> None,
             base_value |-> (Reciprocal(CHOOSE v \in inverse : TRUE) * req.quote_value)
                               \div Pow10(DivisionDigits - MAX_DECIMALS)]
       ELSE IF direct # {}
       THEN [kind |-> "ok", message |-> None,
             base_value |-> req.quote_value * (CHOOSE v \in direct : TRUE)]
       ELSE [kind |-> "err",
             message |-> "No price for " \o req.quote_currency \o " to " \o req.base_currency,
             base_value |-> 0]

\* prices::convert with an integer quote_value: the direct price first, then the
\* inverse one; the product is cut to MAX_DECIMALS digits by with_scale
Convert(req) ==
    LET direct == FindPrice(req.base_currency, req.quote_currency)
        inverse == FindPrice(req.quote_currency, req.base_currency)
    IN IF direct # {}
       THEN [kind |-> "ok", message |-> None,
             base_value |-> req.quote_value * (CHOOSE v \in direct : TRUE)]
       ELSE IF inverse # {}
       THEN [kind |-> "ok", message |-> None,
             base_value |-> (Reciprocal(CHOOSE v \in inverse : TRUE) * req.quote_value)
                               \div Pow10(DivisionDigits - MAX_DECIMALS)]
       ELSE [kind |-> "err",
             message |-> "No price for " \o req.quote_currency \o " to " \o req.base_currency,
             base_value |-> 0]

\* to_satoshis: the precision is chosen by chain
Precision(chain) ==
    IF chain \in {"BTC", "BSV"} THEN 2      \* 8
    ELSE IF chain = "ETH" THEN 4            \* 18
    ELSE 1                                  \* 6

\* to_satoshis: (decimal * 10^precision) as i64, a cast that truncates and saturates
ToSatoshis(decimal, chain) ==
    LET satoshis == (decimal * Pow10(Precision(chain))) \div Pow10(MAX_DECIMALS)
    IN IF satoshis > I64Max THEN I64Max ELSE satoshis

\* get_fee: (amount * fee_rate) as i64; the rates 0.0001 and 0.001 scaled to 0.01 and 0.1
GetFee(currency, amount) ==
    IF currency \in {"BTC", "BSV"} THEN amount \div 100 ELSE amount \div 10

\* str::to_lowercase on the currency codes
ToLowercase(currency) ==
    IF currency = "BTC" THEN "btc" ELSE IF currency = "ETH" THEN "eth"
    ELSE IF currency = "BSV" THEN "bsv" ELSE IF currency = "USD" THEN "usd" ELSE "xyz"

\* a uri that keeps the currency code as it was given
ComputeInvoiceUriKeepCase(currency, uid) == "anypay:" \o currency \o "_" \o uid

\* uri::compute_invoice_uri
ComputeInvoiceUri(currency, uid) == "anypay:" \o ToLowercase(currency) \o "_" \o uid

\* account.denomination.unwrap_or("USD")
Denomination(acct) == "USD"

\* the amount in smallest units of an invoice amount paid in `currency` on `chain`:
\* a set holding it, or the empty set when the conversion fails
PaymentAmount(invoice, currency, chain) ==
    LET conversion == Convert([quote_currency |-> Denomination(invoice.account_id),
                               base_currency |-> currency,
                               quote_value |-> invoice.amount])
    IN IF conversion.kind = "ok" THEN {ToSatoshis(conversion.base_value, chain)} ELSE {}

\* a build whose total is one unit more than its single output
BuildPaymentOptionPlusOne(invoice, address) ==
    {[invoice_uid |-> invoice.uid, currency |-> address.currency, chain |-> address.chain,
      amount |-> a + 1, address |-> address.value,
      outputs |-> <<[address |-> address.value, amount |-> a]>>,
      uri |-> ComputeInvoiceUri(address.currency, invoice.uid),
      fee |-> GetFee(address.currency, a),
      created_at |-> now, updated_at |-> now, expires |-> now + ExpiryMinutes] :
        a \in PaymentAmount(invoice, address.currency, address.chain)}

\* payment_options::build_payment_option: Some(option), or nothing on an error
BuildPaymentOption(invoice, address) ==
    {[invoice_uid |-> invoice.uid, currency |-> address.currency, chain |-> address.chain,
      amount |-> a, address |-> address.value,
      outputs |-> <<[address |-> address.value, amount |-> a]>>,
      uri |-> ComputeInvoiceUri(address.currency, invoice.uid),
      fee |-> GetFee(address.currency, a),
      created_at |-> now, updated_at |-> now, expires |-> now + ExpiryMinutes] :
        a \in PaymentAmount(invoice, address.currency, address.chain)}

\* a refresh that rebuilds the option from scratch, created_at included
RefreshPaymentOptionAsNew(option, invoice) ==
    BuildPaymentOption(invoice, [chain |-> option.chain, currency |-> option.currency,
                                 value |-> option.address])

\* payment_options::refresh_payment_option: Ok(option), or nothing on an error
RefreshPaymentOption(option, invoice) ==
    {[option EXCEPT !.amount = a,
                    !.outputs = <<[address |-> option.address, amount |-> a]>>,
                    !.fee = GetFee(option.currency, a),
                    !.updated_at = now,
                    !.expires = now + ExpiryMinutes] :
        a \in PaymentAmount(invoice, option.currency, option.chain)}

\* payment_options::is_payment_option_expired
IsPaymentOptionExpired(option) == option.expires < now

RECURSIVE Flatten(_)
Flatten(seq) == IF seq = <<>> THEN <<>> ELSE Head(seq) \o Flatten(Tail(seq))

\* a collection that falls back to a BTC address when the account has none
BuiltOptionsDefaultAddress(invoice) ==
    LET addresses == IF invoice.account_id \in DOMAIN Addresses
                        /\ Addresses[invoice.account_id] # <<>>
                     THEN Addresses[invoice.account_id]
                     ELSE <<[chain |-> "BTC", currency |-> "BTC", value |-> "addr_btc"]>>
    IN Flatten([i \in 1..Len(addresses) |->
                  LET built == BuildPaymentOption(invoice, addresses[i])
                  IN IF built = {} THEN <<>> ELSE <<CHOOSE o \in built : TRUE>>])

\* a collection that gives up when the build for one address fails
BuiltOptionsAllOrNothing(invoice) ==
    LET addresses == IF invoice.account_id \in DOMAIN Addresses
                     THEN Addresses[invoice.account_id] ELSE <<>>
    IN IF \E i \in 1..Len(addresses) : BuildPaymentOption(invoice, addresses[i]) = {}
       THEN <<>>
       ELSE [i \in 1..Len(addresses) |->
               CHOOSE o \in BuildPaymentOption(invoice, addresses[i]) : TRUE]

\* the options create_payment_options collects: one per available address whose
\* build succeeded, in address order
BuiltOptions(invoice) ==
    LET addresses == IF invoice.account_id \in DOMAIN Addresses
                     THEN Addresses[invoice.account_id] ELSE <<>>
    IN Flatten([i \in 1..Len(addresses) |->
                  LET built == BuildPaymentOption(invoice, addresses[i])
                  IN IF built = {} THEN <<>> ELSE <<CHOOSE o \in built : TRUE>>])

\* an update that returns the refreshed options only
UpdatedOptionsExpiredOnly(invoice, options) ==
    IF \E i \in 1..Len(options) :
          IsPaymentOptionExpired(options[i]) /\ RefreshPaymentOption(options[i], invoice) = {}
    THEN [kind |-> "err", options |-> <<>>]
    ELSE [kind |-> "ok",
          options |-> Flatten([i \in 1..Len(options) |->
                         IF IsPaymentOptionExpired(options[i])
                         THEN <<CHOOSE o \in RefreshPaymentOption(options[i], invoice) : TRUE>>
                         ELSE <<>>])]

\* payment_options::update_expired_payment_options before its insert: the refreshed
\* list, or an error when the refresh of an expired option fails
UpdatedOptions(invoice, options) ==
    IF \E i \in 1..Len(options) :
          IsPaymentOptionExpired(options[i]) /\ RefreshPaymentOption(options[i], invoice) = {}
    THEN [kind |-> "err", options |-> <<>>]
    ELSE [kind |-> "ok",
          options |-> [i \in 1..Len(options) |->
                         IF IsPaymentOptionExpired(options[i])
                         THEN CHOOSE o \in RefreshPaymentOption(options[i], invoice) : TRUE
                         ELSE options[i]]]

----------------------------------------------------------------------------
(* Store operations, continued *)

\* SupabaseClient::create_payment_options: one batch insert, all rows or none
CanInsert(rows) == Len(payment_options) + Len(rows) <= MaxOptionRows

\* SupabaseClient::get_account
AccountExists(acct) == acct \in DOMAIN Addresses

UnusedUids == InvoiceUids \ DOMAIN invoices

NewInvoiceOf(uid, acct, amount) ==
    [uid |-> uid, amount |-> amount, currency |-> "USD", status |-> "unpaid",
     account_id |-> acct]

NewInvoice(uid, acct) == NewInvoiceOf(uid, acct, 100)

\* payment_options rows built for an invoice: one per available address
BuildOptions(uid, acct) == BuiltOptions(NewInvoice(uid, acct))

\* SupabaseClient::update_invoice_status: update ... where uid = <uid>
UpdateInvoiceStatus(inv, uid, status) ==
    IF uid \in DOMAIN inv THEN [inv EXCEPT ![uid].status = status] ELSE inv

\* Option<i32> of Session.account_id
NoAccount == {}
SomeAccount(a) == {a}
AccountOf(opt) == CHOOSE a \in opt : TRUE

ErrResult(cause) ==
    [kind |-> "err", cause |-> cause, options |-> <<>>, table |-> payment_options]

GetInvoiceOutcomes == {"ok", "invoice_read_failed", "account_failed", "persist_failed"}

\* SupabaseClient::get_invoice with update_expired_payment_options: the result
\* (kind, options returned) and the payment_options table it leaves
GetInvoice(uid, outcome) ==
    IF outcome = "invoice_read_failed" THEN ErrResult("Failed to fetch invoice")
    ELSE IF uid \notin DOMAIN invoices
    THEN [kind |-> "none", cause |-> None, options |-> <<>>, table |-> payment_options]
    ELSE IF outcome = "account_failed" \/ ~AccountExists(invoices[uid].account_id)
    THEN ErrResult("Account not found")
    ELSE LET updated == UpdatedOptions(invoices[uid], RowsOf(uid))
             rows == updated.options
         IN
         IF updated.kind = "ok" /\ rows # <<>> /\ outcome = "ok" /\ CanInsert(rows)
         THEN [kind |-> "ok", cause |-> None, options |-> rows,
               table |-> payment_options \o rows]
         ELSE \* nothing to persist, or the refresh failed: unwrap_or_else(Vec::new)
              [kind |-> "ok", cause |-> None, options |-> <<>>, table |-> payment_options]

----------------------------------------------------------------------------
(* The connection handler (server.rs, handle_connection) *)

NoHeader == [scheme |-> None, token |-> None]

\* the accept_hdr_async callback: the token of a "Bearer " Authorization header
AuthTokenOf(header) == IF header.scheme = "Bearer " THEN header.token ELSE None

\* a validation that binds account 0 when the store maps the token to nothing
ValidateApiKeyOrDefault(token, storeOk) ==
    IF storeOk
    THEN SomeAccount(IF token \in DOMAIN AccessTokens THEN AsI32(AccessTokens[token]) ELSE 0)
    ELSE NoAccount

\* SupabaseClient::validate_api_key, as handle_connection reads it (Ok(Some(id)) or not)
ValidateApiKey(token, storeOk) ==
    IF storeOk /\ token \in DOMAIN AccessTokens
    THEN SomeAccount(AsI32(AccessTokens[token]))
    ELSE NoAccount

NewSession == [state |-> "new", auth_token |-> None, account_id |-> NoAccount]

\* handshake, token validation, then sessions.insert and the spawn of the writer
Accept(s, header, handshakeOk, storeOk) ==
    /\ session[s].state = "new"
    /\ IF handshakeOk
       THEN LET token == AuthTokenOf(header)
                acct == IF token # None THEN ValidateApiKey(token, storeOk) ELSE NoAccount
                made == [state |-> "open", auth_token |-> token, account_id |-> acct]
            IN /\ session' = [session EXCEPT ![s] = made]
               /\ sessions' = MapInsert(sessions, s,
                                 [auth_token |-> token, account_id |-> acct])
               /\ writer' = [writer EXCEPT ![s] = "running"]
       ELSE /\ session' = [session EXCEPT ![s].state = "closed"]
            /\ UNCHANGED <<sessions, writer>>
    /\ UNCHANGED <<subscriptions, outbox, storeVars, confirmVars, engineVars>>

\* is_connected.store(false); sessions.write().await.remove(&session.id)
Cleanup(s) ==
    /\ session' = [session EXCEPT ![s].state = "closed"]
    /\ sessions' = MapRemove(sessions, s)

\* a send that puts the response in front of the ones waiting
RespondFirst(s, resp) ==
    IF writer[s] = "running"
    THEN /\ outbox' = [outbox EXCEPT ![s] = <<resp>> \o @]
         /\ UNCHANGED <<session, sessions>>
    ELSE /\ outbox' = outbox
         /\ Cleanup(s)

\* session.send(response): unbounded_send fails once the writer task has ended,
\* and the read loop then breaks into the cleanup
Respond(s, resp) ==
    IF writer[s] = "running"
    THEN /\ outbox' = [outbox EXCEPT ![s] = Append(@, resp)]
         /\ UNCHANGED <<session, sessions>>
    ELSE /\ outbox' = outbox
         /\ Cleanup(s)

CanHandle(s) == session[s].state = "open" /\ Len(outbox[s]) < MaxOutbox

\* is_connected is still true: the read loop runs, or its task panicked before the
\* cleanup
Connected(s) == session[s].state \in {"open", "aborted"}

\* an unwrap() on a failed store call panics inside handle_message: the task of the
\* connection unwinds without a response and without the cleanup, the session stays
\* in the sessions map and its channel stays open
Panicked(s) ==
    /\ session' = [session EXCEPT ![s].state = "aborted"]
    /\ UNCHANGED <<sessions, outbox, writer, confirmVars, engineVars>>

Handled(s, resp) ==
    /\ Respond(s, resp)
    /\ UNCHANGED <<writer, confirmVars, engineVars>>

\* Message::Subscribe
HandleSubscribe(s, sub) ==
    /\ CanHandle(s)
    /\ subscriptions' = Subscribe(subscriptions, s, sub)
    /\ UNCHANGED storeVars
    /\ Handled(s, Resp("success", "Subscribed to " \o sub.sub_type \o " " \o sub.id, NoData))

\* Message::Unsubscribe
HandleUnsubscribe(s, sub) ==
    /\ CanHandle(s)
    /\ subscriptions' = Unsubscribe(subscriptions, s, sub)
    /\ UNCHANGED storeVars
    /\ Handled(s, Resp("success", "Unsubscribed from " \o sub.sub_type \o " " \o sub.id, NoData))

\* Message::FetchInvoice
HandleFetchInvoice(s, uid, outcome) ==
    /\ CanHandle(s)
    /\ LET got == GetInvoice(uid, outcome) IN
       /\ payment_options' = got.table
       /\ invoices' = invoices
       /\ UNCHANGED subscriptions
       /\ Handled(s, CASE got.kind = "ok" ->
                   Resp("success", None,
                        [kind |-> "invoice", invoice |-> invoices[uid],
                         payment_options |-> got.options])
              [] got.kind = "none" -> Resp("error", "Invoice not found", NoData)
              [] OTHER -> Resp("error", "Error fetching invoice: " \o got.cause, NoData))

CreateInvoiceOutcomes == {"ok", "insert_failed", "account_failed", "persist_failed",
                          "lookup_panicked"}

\* SupabaseClient::create_invoice through invoices::create_invoice: the invoice row
\* is inserted first, the payment options are built and inserted after it
CreateInvoice(uid, acct, outcome) ==
    IF outcome = "insert_failed"
    THEN [kind |-> "err", cause |-> "Failed to create invoice",
          invoices |-> invoices, table |-> payment_options, options |-> <<>>]
    ELSE LET inserted == MapInsert(invoices, uid, NewInvoice(uid, acct))
             rows == BuildOptions(uid, acct)
             failed(cause) == [kind |-> "err", cause |-> cause, invoices |-> inserted,
                               table |-> payment_options, options |-> <<>>]
         IN IF outcome = "account_failed" \/ ~AccountExists(acct)
            THEN failed("Failed to get account")
            ELSE IF outcome = "lookup_panicked" /\ Addresses[acct] # <<>>
            THEN \* get_coin(..).unwrap() in list_available_addresses, or
                 \* find_price(..).unwrap() in convert
                 [kind |-> "panic", cause |-> None, invoices |-> inserted,
                  table |-> payment_options, options |-> <<>>]
            ELSE IF rows = <<>>
            THEN [kind |-> "ok", cause |-> None, invoices |-> inserted,
                  table |-> payment_options, options |-> <<>>]
            ELSE IF outcome = "ok" /\ CanInsert(rows)
            THEN [kind |-> "ok", cause |-> None, invoices |-> inserted,
                  table |-> payment_options \o rows, options |-> rows]
            ELSE failed("Failed to create payment options: Failed to create payment options")

\* a handler that creates the invoice for whoever asks (account_id.unwrap_or_default())
HandleCreateInvoiceNoCheck(s, uid, outcome) ==
    /\ CanHandle(s)
    /\ uid \in UnusedUids
    /\ LET acct == IF session[s].account_id # NoAccount
                   THEN AccountOf(session[s].account_id) ELSE 0
           made == CreateInvoice(uid, acct, outcome) IN
       /\ invoices' = made.invoices
       /\ payment_options' = made.table
       /\ UNCHANGED subscriptions
       /\ Handled(s, IF made.kind = "ok"
                 THEN Resp("success", None,
                           [kind |-> "invoice", invoice |-> made.invoices[uid],
                            payment_options |-> made.options])
                 ELSE Resp("error", "Failed to create invoice: " \o made.cause, NoData))

\* Message::CreateInvoice
HandleCreateInvoice(s, uid, outcome) ==
    /\ CanHandle(s)
    /\ session[s].account_id # NoAccount => uid \in UnusedUids
    /\ IF session[s].account_id # NoAccount
       THEN LET made == CreateInvoice(uid, AccountOf(session[s].account_id), outcome) IN
            /\ invoices' = made.invoices
            /\ payment_options' = made.table
            /\ UNCHANGED subscriptions
            /\ IF made.kind = "panic" THEN Panicked(s)
               ELSE Handled(s, IF made.kind = "ok"
                 THEN Resp("success", None,
                           [kind |-> "invoice", invoice |-> made.invoices[uid],
                            payment_options |-> made.options])
                 ELSE Resp("error", "Failed to create invoice: " \o made.cause, NoData))
       ELSE /\ UNCHANGED <<storeVars, subscriptions>>
            /\ Handled(s, UnauthorizedCreateResponse)

CancelResult(kind, message, inv, table) ==
    [kind |-> kind, message |-> message, invoices |-> inv, table |-> table]

\* SupabaseClient::cancel_invoice
CancelInvoice(uid, account_id, outcome, updateOk) ==
    LET got == GetInvoice(uid, outcome) IN
    IF got.kind = "err" THEN CancelResult("err", got.cause, invoices, got.table)
    ELSE IF got.kind = "none"
    THEN CancelResult("err", "Invoice not found", invoices, got.table)
    ELSE IF AsI32(invoices[uid].account_id) # account_id
    THEN CancelResult("err", "Unauthorized to cancel this invoice", invoices, got.table)
    ELSE IF ~updateOk
    THEN CancelResult("err", "error sending request", invoices, got.table)
    ELSE CancelResult("ok", None, UpdateInvoiceStatus(invoices, uid, "cancelled"), got.table)

\* Message::CancelInvoice
HandleCancelInvoice(s, uid, outcome, updateOk) ==
    /\ CanHandle(s)
    /\ IF session[s].account_id # NoAccount
       THEN LET done == CancelInvoice(uid, AccountOf(session[s].account_id), outcome, updateOk) IN
            /\ invoices' = done.invoices
            /\ payment_options' = done.table
            /\ UNCHANGED subscriptions
            /\ Handled(s, IF done.kind = "ok"
                 THEN Resp("success", "Invoice cancelled successfully", NoData)
                 ELSE Resp("error", done.message, NoData))
       ELSE /\ outcome = "ok" /\ updateOk
            /\ UNCHANGED <<storeVars, subscriptions>>
            /\ Handled(s, UnauthorizedCancelResponse)

\* Message::ListPrices
HandleListPrices(s, storeOk) ==
    /\ CanHandle(s)
    /\ UNCHANGED <<storeVars, subscriptions>>
    /\ Handled(s, IF storeOk THEN Resp("success", None, [kind |-> "prices"])
         ELSE Resp("error", "Error fetching prices: Failed to fetch prices", NoData))

\* the ConversionResult in a response (its timestamp left out)
ConversionData(req, base_value) ==
    [kind |-> "conversion", quote_currency |-> req.quote_currency,
     base_currency |-> req.base_currency, quote_value |-> req.quote_value,
     base_value |-> base_value]

\* Message::ConvertPrice
\* (convert unwraps the result of find_price: a failed store call panics)
HandleConvertPrice(s, req, storeOk) ==
    /\ CanHandle(s)
    /\ UNCHANGED <<storeVars, subscriptions>>
    /\ IF storeOk
       THEN LET conversion == Convert(req) IN
            Handled(s, IF conversion.kind = "ok"
                       THEN Resp("success", None, ConversionData(req, conversion.base_value))
                       ELSE Resp("error", "Conversion failed: " \o conversion.message, NoData))
       ELSE Panicked(s)

\* Message::Ping
HandlePing(s) ==
    /\ CanHandle(s)
    /\ UNCHANGED <<storeVars, subscriptions>>
    /\ Handled(s, PongResponse)

\* a handler that closes the connection on a frame it cannot read
HandleInvalidCloses(s) ==
    /\ CanHandle(s)
    /\ Cleanup(s)
    /\ UNCHANGED <<storeVars, subscriptions, outbox, writer, confirmVars, engineVars>>

\* a text frame serde_json cannot read as a Message
HandleInvalid(s) ==
    /\ CanHandle(s)
    /\ UNCHANGED <<storeVars, subscriptions>>
    /\ Handled(s, InvalidFormatResponse)

\* the read loop ends: the client closed, or the socket returned an error
ConnectionClosed(s) ==
    /\ session[s].state = "open"
    /\ Cleanup(s)
    /\ UNCHANGED <<subscriptions, outbox, writer, storeVars, confirmVars, engineVars>>

\* the writer task forwards one message to the socket
WriterSend(s) ==
    /\ writer[s] = "running" /\ outbox[s] # <<>> /\ Connected(s)
    /\ outbox' = [outbox EXCEPT ![s] = Tail(@)]
    /\ UNCHANGED <<session, sessions, subscriptions, writer, storeVars, confirmVars, engineVars>>

\* ws_sender.send fails: the task ends and drops the receiver
WriterSendFails(s) ==
    /\ writer[s] = "running" /\ outbox[s] # <<>> /\ Connected(s)
    /\ outbox' = [outbox EXCEPT ![s] = <<>>]
    /\ writer' = [writer EXCEPT ![s] = "exited"]
    /\ UNCHANGED <<session, sessions, subscriptions, storeVars, confirmVars, engineVars>>

\* a holder that keeps a clone for as long as a subscriber set lists the session
SenderClonesInRegistry(s) ==
    {h \in {"handler", "sessions", "registry"} :
        \/ h = "handler" /\ session[s].state = "open"
        \/ h = "sessions" /\ s \in DOMAIN sessions
        \/ h = "registry" /\ \E sub \in DOMAIN subscriptions : s \in subscriptions[sub]}

\* the holders of a clone of the session's sender: the handler's local Session while
\* the handler runs, and the copy in the sessions map; subscribe takes a clone by value
\* and drops it when it returns, the registry keeps the id only
SenderClones(s) ==
    {h \in {"handler", "sessions"} :
        \/ h = "handler" /\ session[s].state = "open"
        \/ h = "sessions" /\ s \in DOMAIN sessions}

\* the writer task ends: it receives a message and finds is_connected false, or
\* receiver.next() returns None because the channel is empty and every sender is dropped
WriterStops(s) ==
    /\ writer[s] = "running"
    /\ \/ outbox[s] # <<>> /\ ~Connected(s)
       \/ outbox[s] = <<>> /\ SenderClones(s) = {}
    /\ outbox' = [outbox EXCEPT ![s] = <<>>]
    /\ writer' = [writer EXCEPT ![s] = "exited"]
    /\ UNCHANGED <<session, sessions, subscriptions, storeVars, confirmVars, engineVars>>

----------------------------------------------------------------------------
(* The confirmation pipeline (blockbook.rs process_block, confirmations.rs) *)

\* w1 is the block consumer (process_block), w2 another caller of confirm_payment
Workers == {"w1", "w2"}
PaymentIds == {"p1", "p2"}
Txids == {"T1", "T2", "T9"}      \* T9 is the txid of no payment

\* block notifications: {hash, height, timestamp} (timestamp defaults to 0)
Blocks == {[hash |-> "H1", height |-> 100, timestamp |-> 1700],
           [hash |-> "H2", height |-> 101, timestamp |-> 0]}

\* what get_block_txids can return for a block
TxidLists == {<<>>, <<"T1">>, <<"T9", "T1">>, <<"T2">>}

\* Utc::now()
UtcNow == 2000

\* Option<T> of the confirmation_* columns
NoValue == {}
Some(v) == {v}

PaymentsInit ==
    [p \in PaymentIds |->
        [id |-> p,
         txid |-> IF p = "p1" THEN "T1" ELSE "T2",
         invoice_uid |-> IF p = "p1" THEN "inv_1" ELSE "inv_2",
         chain |-> "BTC", currency |-> "BTC", status |-> "pending",
         confirmation_hash |-> NoValue, confirmation_height |-> NoValue,
         confirmation_date |-> NoValue]]

\* the Confirmation process_block builds for a block
ConfirmationOf(block) ==
    [confirmation_hash |-> block.hash,
     confirmation_height |-> block.height,
     confirmation_date |-> IF block.timestamp > 0 THEN block.timestamp ELSE UtcNow]

Confirmed(row, conf) ==
    [row EXCEPT !.confirmation_hash = Some(conf.confirmation_hash),
                !.confirmation_height = Some(conf.confirmation_height),
                !.confirmation_date = Some(conf.confirmation_date)]

\* a lookup that ignores the txid
GetUnconfirmedPaymentAny(txid) ==
    {p \in DOMAIN payments : payments[p].confirmation_hash = NoValue}

\* store: select the payment with this txid whose confirmation_hash is null
GetUnconfirmedPaymentByTxid(txid) ==
    {p \in DOMAIN payments :
        payments[p].txid = txid /\ payments[p].confirmation_hash = NoValue}

\* store: set confirmation_* where id = <id> and confirmation_hash is null;
\* the number of rows the update affects
UpdatePaymentRows(id) ==
    IF id \in DOMAIN payments /\ payments[id].confirmation_hash = NoValue THEN 1 ELSE 0

\* the payment.confirmed event confirm_payment constructs
PaymentConfirmedEvent(payment, invoice, conf) ==
    [topic |-> "payment.confirmed",
     payload |-> [account_id |-> invoice.account_id,
                  payment |-> [chain |-> payment.chain, currency |-> payment.currency,
                               txid |-> payment.txid, status |-> payment.status],
                  invoice |-> [uid |-> invoice.uid, status |-> "paid"],
                  confirmation |-> [hash |-> conf.confirmation_hash,
                                    height |-> conf.confirmation_height]]]

NoConfirmation ==
    [confirmation_hash |-> None, confirmation_height |-> 0, confirmation_date |-> 0]

Idle == [pc |-> "idle", txids |-> <<>>, conf |-> NoConfirmation, direct |-> FALSE,
         payment |-> PaymentsInit["p1"], pre |-> PaymentsInit["p1"],
         ret |-> PaymentsInit["p1"], result |-> None, wrote |-> {}]

\* confirm_payment line 96: the payment it was handed already has a confirmation_hash
AlreadyConfirmedNever(payment) == FALSE
AlreadyConfirmed(payment) == payment.confirmation_hash # NoValue

\* confirm_payment line 108: `?` returns the error of update_payment
ProceedsAfterUpdateAlways(updated) == TRUE
ProceedsAfterUpdate(updated) == updated

Wrote(p, what) == [writes EXCEPT ![p][what] = @ + 1]

\* a block notification arrives and its txids are fetched
ProcessBlock(w, block, txids) ==
    /\ call[w].pc = "idle"
    /\ call' = [call EXCEPT ![w] = [Idle EXCEPT !.pc = "next_tx", !.txids = txids,
                                               !.conf = ConfirmationOf(block)]]
    /\ UNCHANGED <<engineVars, busVars, storeVars, payments, eventBus, writes>>

\* the loop of process_block: look the next txid up among the unconfirmed payments
NextTx(w, storeOk) ==
    /\ call[w].pc = "next_tx"
    /\ IF call[w].txids = <<>> \/ ~storeOk
       THEN call' = [call EXCEPT ![w] = Idle]
       ELSE LET found == GetUnconfirmedPaymentByTxid(Head(call[w].txids)) IN
            IF found = {}
            THEN call' = [call EXCEPT ![w].txids = Tail(@)]
            ELSE \E p \in found :
                   call' = [call EXCEPT ![w].pc = "confirm", ![w].payment = payments[p],
                                        ![w].pre = payments[p], ![w].ret = payments[p],
                                        ![w].result = None, ![w].wrote = {}]
    /\ UNCHANGED <<engineVars, busVars, storeVars, payments, eventBus, writes>>

\* confirm_payment called with a payment value the caller holds: the current row,
\* or the row as it was read before it was confirmed
ConfirmPaymentCall(w, p, stale, block) ==
    /\ call[w].pc = "idle"
    /\ call' = [call EXCEPT ![w] =
                  [Idle EXCEPT !.pc = "confirm", !.direct = TRUE,
                               !.conf = ConfirmationOf(block),
                               !.payment = IF stale THEN PaymentsInit[p] ELSE payments[p],
                               !.pre = payments[p], !.ret = payments[p]]]
    /\ UNCHANGED <<engineVars, busVars, storeVars, payments, eventBus, writes>>

\* confirm_payment lines 93-108: the early return, else update_payment
ConfirmPayment(w, storeOk) ==
    /\ call[w].pc = "confirm"
    /\ LET c == call[w]
           id == c.payment.id
           updated == storeOk /\ UpdatePaymentRows(id) = 1
       IN IF AlreadyConfirmed(c.payment)
          THEN /\ call' = [call EXCEPT ![w].pc = "returned", ![w].result = "ok",
                                       ![w].ret = c.payment]
               /\ UNCHANGED <<payments, writes>>
          ELSE /\ payments' = IF updated
                              THEN [payments EXCEPT ![id] = Confirmed(@, c.conf)]
                              ELSE payments
               /\ writes' = IF updated THEN Wrote(id, "payment") ELSE writes
               /\ call' = [call EXCEPT
                     ![w].pc = IF ProceedsAfterUpdate(updated) THEN "get_invoice"
                               ELSE "returned",
                     ![w].result = IF ProceedsAfterUpdate(updated) THEN None ELSE "err",
                     ![w].ret = payments'[id],
                     ![w].wrote = IF updated THEN @ \cup {"payment"} ELSE @]
    /\ UNCHANGED <<engineVars, busVars, storeVars, eventBus>>

\* confirm_payment line 111: get_invoice(&payment.invoice_uid, true)
ConfirmGetInvoice(w, outcome) ==
    /\ call[w].pc = "get_invoice"
    /\ LET got == GetInvoice(call[w].payment.invoice_uid, outcome) IN
       /\ payment_options' = got.table
       /\ call' = IF got.kind = "ok"
                  THEN [call EXCEPT ![w].pc = "update_status"]
                  ELSE [call EXCEPT ![w].pc = "returned", ![w].result = "err"]
    /\ UNCHANGED <<engineVars, busVars, invoices, payments, eventBus, writes>>

\* confirm_payment lines 115-143: the invoice becomes paid, the event is built
\* (and dropped: nothing publishes it), the updated payment is returned
ConfirmUpdateStatus(w, storeOk) ==
    /\ call[w].pc = "update_status"
    /\ LET uid == call[w].payment.invoice_uid IN
       IF storeOk
       THEN /\ invoices' = UpdateInvoiceStatus(invoices, uid, "paid")
            /\ writes' = Wrote(call[w].payment.id, "invoice")
            /\ call' = [call EXCEPT ![w].pc = "returned", ![w].result = "ok",
                                    ![w].wrote = @ \cup {"invoice"}]
       ELSE /\ call' = [call EXCEPT ![w].pc = "returned", ![w].result = "err"]
            /\ UNCHANGED <<invoices, writes>>
    /\ UNCHANGED <<engineVars, busVars, payment_options, payments, eventBus>>

\* confirm_payment has returned: process_block logs the result and goes on
Return(w) ==
    /\ call[w].pc = "returned"
    /\ call' = IF call[w].direct
               THEN [call EXCEPT ![w] = Idle]
               ELSE [call EXCEPT ![w] = [Idle EXCEPT !.pc = "next_tx",
                                                  !.txids = Tail(call[w].txids),
                                                  !.conf = call[w].conf]]
    /\ UNCHANGED <<engineVars, busVars, storeVars, payments, eventBus, writes>>

\* create_invoice, by an account (through any front end)
CreateInvoiceStep(uid, acct, outcome) ==
    /\ uid \in UnusedUids
    /\ LET made == CreateInvoice(uid, acct, outcome) IN
       /\ invoices' = made.invoices
       /\ payment_options' = made.table
    /\ UNCHANGED <<engineVars, busVars, confirmVars>>

\* cancel_invoice, by an account
CancelInvoiceStep(uid, acct, outcome, updateOk) ==
    /\ LET done == CancelInvoice(uid, acct, outcome, updateOk) IN
       /\ invoices' = done.invoices
       /\ payment_options' = done.table
    /\ UNCHANGED <<engineVars, busVars, confirmVars>>

----------------------------------------------------------------------------
(* Clients of the invoice engine: create_invoice and get_invoice calls *)

Clients == {"c1", "c2"}

\* prices are decimals with MAX_DECIMALS digits: 40000 is 400.00 USD for one BTC. The
\* BSV/USD pair is stored in both directions, with values that disagree, and BTC is
\* priced in USD and in BSV
InitPrices ==
    [pair \in {<<"USD", "BTC">>, <<"USD", "ETH">>, <<"USD", "BSV">>, <<"BSV", "USD">>,
               <<"BSV", "BTC">>} |->
        IF pair = <<"USD", "BTC">> THEN 40000
        ELSE IF pair = <<"USD", "ETH">> THEN 2500
        ELSE IF pair = <<"USD", "BSV">> THEN 5000
        ELSE IF pair = <<"BSV", "USD">> THEN 4
        ELSE 800]

NoCreate == [pc |-> "idle", uid |-> None, result |-> None, options |-> <<>>, at |-> 0]
NoFetch == [kind |-> None, uid |-> None, store |-> None, read |-> <<>>,
            options |-> <<>>, at |-> 0]

\* invoice amounts clients ask for
Amounts == {1, 100, 300}

\* SupabaseClient::create_invoice, lines 110-143: the invoice row is inserted
CreateInvoiceInsert(c, uid, acct, amount, insertOk) ==
    /\ create[c].pc = "idle"
    /\ uid \in UnusedUids
    /\ IF insertOk
       THEN /\ invoices' = MapInsert(invoices, uid, NewInvoiceOf(uid, acct, amount))
            /\ create' = [create EXCEPT ![c] = [NoCreate EXCEPT !.pc = "options",
                                                               !.uid = uid]]
       ELSE /\ invoices' = invoices
            /\ create' = [create EXCEPT ![c] = [NoCreate EXCEPT !.result = "err"]]
    /\ UNCHANGED <<payment_options, prices, now, fetched, price_cache, coinVars,
                   calc, busVars, confirmVars>>

\* SupabaseClient::create_invoice, lines 145-156: get_account, then
\* create_payment_options builds the options and inserts them in one batch
CreateInvoiceOptions(c, outcome) ==
    /\ create[c].pc = "options"
    /\ LET invoice == invoices[create[c].uid]
           rows == BuiltOptions(invoice)
           done(result, options) ==
               [create EXCEPT ![c] = [pc |-> "idle", uid |-> invoice.uid,
                                      result |-> result, options |-> options, at |-> now]]
       IN IF outcome = "account_failed" \/ ~AccountExists(invoice.account_id)
          THEN create' = done("err", <<>>) /\ payment_options' = payment_options
          ELSE IF rows = <<>>
          THEN create' = done("ok", <<>>) /\ payment_options' = payment_options
          ELSE IF outcome = "ok" /\ CanInsert(rows)
          THEN create' = done("ok", rows) /\ payment_options' = payment_options \o rows
          ELSE create' = done("err", <<>>) /\ payment_options' = payment_options
    /\ UNCHANGED <<invoices, prices, now, fetched, price_cache, coinVars,
                   calc, busVars, confirmVars>>

\* SupabaseClient::get_invoice, called by a client. `outcome` is what the store does
\* during the call; a read that the store serves in full is taken only while the
\* table has room for the rows it inserts
FetchInvoice(c, uid, outcome) ==
    /\ outcome = "ok" => CanInsert(RowsOf(uid))
    /\ LET got == GetInvoice(uid, outcome) IN
       /\ payment_options' = got.table
       /\ fetched' = [fetched EXCEPT ![c] =
                        [kind |-> got.kind, uid |-> uid, store |-> outcome,
                         read |-> RowsOf(uid), options |-> got.options, at |-> now]]
    /\ UNCHANGED <<invoices, prices, now, create, price_cache, coinVars,
                   calc, busVars, confirmVars>>

\* time passes
Tick ==
    /\ now < MaxNow
    /\ now' = now + TickMinutes
    /\ UNCHANGED <<prices, create, fetched, price_cache, coinVars, calc,
                   busVars, storeVars, confirmVars>>

\* the price feed writes a new USD price of a coin to the store table
SetPrice(currency, value) ==
    /\ prices[<<"USD", currency>>] # value
    /\ prices' = [prices EXCEPT ![<<"USD", currency>>] = value]
    /\ UNCHANGED <<now, create, fetched, price_cache, coinVars, calc,
                   busVars, storeVars, confirmVars>>

\* the rows of the prices table, in an order the store can return them
PriceRows == <<<<"USD", "BTC">>, <<"USD", "ETH">>, <<"USD", "BSV">>, <<"BSV", "USD">>,
               <<"BSV", "BTC">>>>
Reverse(seq) == [i \in 1..Len(seq) |-> seq[Len(seq) + 1 - i]]
RowOrders == {PriceRows, Reverse(PriceRows)}

\* the Price of a row
PriceOf(pair) == [currency |-> pair[2], base_currency |-> pair[1], value |-> prices[pair]]

\* refresh_prices lines 338-341: cache.insert(price.currency, price) for each row
RECURSIVE InsertPrices(_, _)
InsertPrices(cache, rows) ==
    IF rows = <<>> THEN cache
    ELSE InsertPrices(MapInsert(cache, Head(rows)[2], PriceOf(Head(rows))), Tail(rows))

\* SupabaseClient::get_cached_price
GetCachedPrice(cache, currency) ==
    IF currency \in DOMAIN cache THEN {cache[currency]} ELSE {}

\* SupabaseClient::refresh_prices, run by the price updater every minute; a store or
\* parse error returns before the cache is touched
RefreshPrices(storeOk, rows) ==
    /\ price_cache' = IF storeOk THEN InsertPrices(price_cache, rows) ELSE price_cache
    /\ UNCHANGED <<prices, now, create, fetched, coinVars, calc, busVars, storeVars, confirmVars>>

----------------------------------------------------------------------------
(* The coin catalog (supabase.rs, COIN_CACHE). The tasks of the runtime run in    *)
(* parallel: each acquisition of the lock is a step of its own.                   *)

CoinTasks == {"t1", "t2"}

\* store table coins
Coins == {[currency |-> "BTC", chain |-> "BTC", unavailable |-> FALSE],
          [currency |-> "ETH", chain |-> "ETH", unavailable |-> TRUE]}

\* format!("{}:{}", currency, chain)
CoinKey(currency, chain) == currency \o ":" \o chain

\* ensure_coins_loaded lines 249-252: the map built from the rows of the table
CoinMap ==
    [k \in {CoinKey(c.currency, c.chain) : c \in Coins} |->
        CHOOSE c \in Coins : CoinKey(c.currency, c.chain) = k]

NoCoinTask == [op |-> None, pc |-> "idle", key |-> None, result |-> None, coin |-> NoValue]

CoinTaskDone(t, result, coin) ==
    [coin_task EXCEPT ![t].pc = "done", ![t].result = result, ![t].coin = coin]

\* get_coin is called
GetCoin(t, currency, chain) ==
    /\ coin_task[t].pc = "idle"
    /\ coin_task' = [coin_task EXCEPT ![t] = [NoCoinTask EXCEPT !.op = "get_coin",
                                                !.pc = "ensure",
                                                !.key = CoinKey(currency, chain)]]
    /\ UNCHANGED <<coin_cache, prices, now, create, fetched, price_cache, calc,
                   busVars, storeVars, confirmVars>>

\* refresh_coins lines 290-293: *cache = None under the write lock, which is dropped
RefreshCoins(t) ==
    /\ coin_task[t].pc = "idle"
    /\ coin_cache' = NoValue
    /\ coin_task' = [coin_task EXCEPT ![t] = [NoCoinTask EXCEPT !.op = "refresh_coins",
                                                !.pc = "ensure"]]
    /\ UNCHANGED <<prices, now, create, fetched, price_cache, calc,
                   busVars, storeVars, confirmVars>>

\* ensure_coins_loaded lines 232-235: return when the cache is_some()
EnsureCoinsLoaded(t) ==
    /\ coin_task[t].pc = "ensure"
    /\ coin_task' = IF coin_cache = NoValue THEN [coin_task EXCEPT ![t].pc = "load"]
                    ELSE IF coin_task[t].op = "get_coin"
                    THEN [coin_task EXCEPT ![t].pc = "read"]
                    ELSE CoinTaskDone(t, "ok", NoValue)
    /\ UNCHANGED <<coin_cache, prices, now, create, fetched, price_cache, calc,
                   busVars, storeVars, confirmVars>>

\* ensure_coins_loaded lines 238-257: select all coins and, under the write lock,
\* *cache = Some(coin_map); a store or parse error is returned by `?`
LoadCoins(t, storeOk) ==
    /\ coin_task[t].pc = "load"
    /\ IF storeOk
       THEN /\ coin_cache' = Some(CoinMap)
            /\ coin_task' = IF coin_task[t].op = "get_coin"
                            THEN [coin_task EXCEPT ![t].pc = "read"]
                            ELSE CoinTaskDone(t, "ok", NoValue)
       ELSE /\ coin_cache' = coin_cache
            /\ coin_task' = CoinTaskDone(t, "err", NoValue)
    /\ UNCHANGED <<prices, now, create, fetched, price_cache, calc,
                   busVars, storeVars, confirmVars>>

\* get_coin lines 283-286: COIN_CACHE.read().as_ref().and_then(|map| map.get(key))
ReadCoin(t) ==
    /\ coin_task[t].pc = "read"
    /\ coin_task' = CoinTaskDone(t, "ok",
                        IF coin_cache = NoValue THEN NoValue
                        ELSE LET map == CHOOSE m \in coin_cache : TRUE
                             IN IF coin_task[t].key \in DOMAIN map
                                THEN Some(map[coin_task[t].key]) ELSE NoValue)
    /\ UNCHANGED <<coin_cache, prices, now, create, fetched, price_cache, calc,
                   busVars, storeVars, confirmVars>>

\* the caller has its result
CoinReturn(t) ==
    /\ coin_task[t].pc = "done"
    /\ coin_task' = [coin_task EXCEPT ![t] = NoCoinTask]
    /\ UNCHANGED <<coin_cache, prices, now, create, fetched, price_cache, calc,
                   busVars, storeVars, confirmVars>>

----------------------------------------------------------------------------
(* Calls of the unit functions: to_satoshis, get_fee and convert, each applied to   *)
(* arguments drawn from small sets.                                                 *)

NoCalc == [op |-> None, args |-> <<>>, result |-> [kind |-> None, value |-> 0]]

\* coins get_coin can return to to_satoshis: currency, chain and the precision column
\* (18 is scaled to 4, 9 to 3, 8 to 2 and 6 to 1)
UnitCoins ==
    {[currency |-> "BTC", chain |-> "BTC", precision |-> Some(2)],
     [currency |-> "BSV", chain |-> "BSV", precision |-> NoValue],
     [currency |-> "DOGE", chain |-> "DOGE", precision |-> NoValue],
     [currency |-> "FB", chain |-> "FB", precision |-> NoValue],
     [currency |-> "ETH", chain |-> "ETH", precision |-> NoValue],
     [currency |-> "USDC", chain |-> "ETH", precision |-> Some(1)],
     [currency |-> "MATIC", chain |-> "MATIC", precision |-> NoValue],
     [currency |-> "USDT", chain |-> "TRON", precision |-> NoValue],
     [currency |-> "XRP", chain |-> "XRP", precision |-> NoValue],
     [currency |-> "SOL", chain |-> "SOL", precision |-> NoValue]}

\* decimal amounts, in units of 10^-MAX_DECIMALS, small enough for an i64
UnitDecimals == {1, 25, 150, 399}

\* to_satoshis: get_coin must return a coin; the precision is then taken from the chain
ToSatoshisCall(decimal, coin) ==
    /\ calc' = [op |-> "to_satoshis", args |-> <<decimal, coin>>,
                result |-> IF coin = NoValue
                           THEN [kind |-> "err", value |-> 0]
                           ELSE [kind |-> "ok",
                                 value |-> ToSatoshis(decimal,
                                               (CHOOSE c \in coin : TRUE).chain)]]
    /\ UNCHANGED <<prices, now, create, fetched, price_cache, coinVars,
                   busVars, storeVars, confirmVars>>

\* get_fee
GetFeeCall(currency, amount) ==
    /\ calc' = [op |-> "get_fee", args |-> <<currency, amount>>,
                result |-> [kind |-> "ok", value |-> GetFee(currency, amount)]]
    /\ UNCHANGED <<prices, now, create, fetched, price_cache, coinVars,
                   busVars, storeVars, confirmVars>>

\* prices::convert of a decimal quote_value, in units of 10^-MAX_DECIMALS: the direct
\* price first, then the inverse one; with_scale cuts the product to MAX_DECIMALS digits
ConvertDecimal(req) ==
    LET direct == FindPrice(req.base_currency, req.quote_currency)
        inverse == FindPrice(req.quote_currency, req.base_currency)
    IN IF direct # {}
       THEN [kind |-> "ok",
             value |-> (req.quote_value * (CHOOSE v \in direct : TRUE))
                          \div Pow10(MAX_DECIMALS)]
       ELSE IF inverse # {}
       THEN [kind |-> "ok",
             value |-> (Reciprocal(CHOOSE v \in inverse : TRUE) * req.quote_value)
                          \div Pow10(DivisionDigits)]
       ELSE [kind |-> "err", value |-> 0]

\* convert(Q, B, v)
ConvertCall(quote_currency, base_currency, value) ==
    /\ calc' = [op |-> "convert", args |-> <<quote_currency, base_currency, value>>,
                result |-> ConvertDecimal([quote_currency |-> quote_currency,
                                           base_currency |-> base_currency,
                                           quote_value |-> value])]
    /\ UNCHANGED <<prices, now, create, fetched, price_cache, coinVars,
                   busVars, storeVars, confirmVars>>

\* convert(B, Q, v_base), with the base value the conversion before it returned
ConvertBackCall ==
    /\ calc.op = "convert" /\ calc.result.kind = "ok"
    /\ calc' = [op |-> "convert_back",
                args |-> <<calc.args[1], calc.args[2], calc.args[3], calc.result.value>>,
                result |-> ConvertDecimal([quote_currency |-> calc.args[2],
                                           base_currency |-> calc.args[1],
                                           quote_value |-> calc.result.value])]
    /\ UNCHANGED <<prices, now, create, fetched, price_cache, coinVars,
                   busVars, storeVars, confirmVars>>

----------------------------------------------------------------------------
(* Specifications *)

\* the store holds one invoice, of one of the accounts `owners`
InitWith(owners) ==
    /\ prices = InitPrices
    /\ price_cache = EmptyMap
    /\ coin_cache = NoValue
    /\ coin_task = [t \in CoinTasks |-> NoCoinTask]
    /\ calc = NoCalc
    /\ now = 0
    /\ create = [c \in Clients |-> NoCreate]
    /\ fetched = [c \in Clients |-> NoFetch]
    /\ session = [s \in SessionIds |-> NewSession]
    /\ sessions = EmptyMap
    /\ subscriptions = EmptyMap
    /\ outbox = [s \in SessionIds |-> <<>>]
    /\ writer = [s \in SessionIds |-> "none"]
    /\ \E owner \in owners :
          /\ invoices = MapInsert(EmptyMap, "inv_1", NewInvoice("inv_1", owner))
          /\ payment_options = BuildOptions("inv_1", owner)
    /\ payments = PaymentsInit
    /\ call = [w \in Workers |-> Idle]
    /\ eventBus = <<>>
    /\ writes = [p \in PaymentIds |-> [payment |-> 0, invoice |-> 0]]

Init == InitWith({5})

\* the connections and the registry
Connections(S, H) ==
    \/ \E s \in S, h \in H, hs \in BOOLEAN, ok \in BOOLEAN : Accept(s, h, hs, ok)
    \/ \E s \in S, sub \in Subscription : HandleSubscribe(s, sub)
    \/ \E s \in S, sub \in Subscription : HandleUnsubscribe(s, sub)
    \/ \E s \in S : ConnectionClosed(s)
    \/ \E s \in S : WriterSend(s)
    \/ \E s \in S : WriterSendFails(s)
    \/ \E s \in S : WriterStops(s)

Next == Connections(SessionIds, {NoHeader})

Spec == Init /\ [][Next]_vars

\* one connection and every command it can send
CommandHeaders == {NoHeader,
                   [scheme |-> "Bearer ", token |-> "tok3"],
                   [scheme |-> "Bearer ", token |-> "bad"],
                   [scheme |-> "Basic ", token |-> "tok3"]}

\* convert_price commands: a pair priced directly, one priced inversely, one priced
\* both ways and one not priced
ConversionRequests ==
    {[quote_currency |-> pair[1], base_currency |-> pair[2], quote_value |-> 3] :
        pair \in {<<"BTC", "USD">>, <<"USD", "BTC">>, <<"USD", "BSV">>, <<"USD", "XYZ">>}}

NextCommands ==
    \/ Connections({"s1"}, CommandHeaders)
    \/ \E uid \in InvoiceUids, o \in GetInvoiceOutcomes : HandleFetchInvoice("s1", uid, o)
    \/ \E uid \in InvoiceUids, o \in CreateInvoiceOutcomes : HandleCreateInvoice("s1", uid, o)
    \/ \E uid \in InvoiceUids, o \in GetInvoiceOutcomes, ok \in BOOLEAN :
          HandleCancelInvoice("s1", uid, o, ok)
    \/ \E ok \in BOOLEAN : HandleListPrices("s1", ok)
    \/ \E req \in ConversionRequests, ok \in BOOLEAN : HandleConvertPrice("s1", req, ok)
    \/ HandlePing("s1")
    \/ HandleInvalid("s1")

SpecCommands == Init /\ [][NextCommands]_vars

\* the account ids sessions are bound to (validate_api_key's i32)
SessionAccounts == {3, 5}

\* the store and the confirmation pipeline
NextConfirm ==
    \/ \E b \in Blocks, txids \in TxidLists : ProcessBlock("w1", b, txids)
    \/ \E w \in Workers, ok \in BOOLEAN : NextTx(w, ok)
    \/ \E p \in PaymentIds, stale \in BOOLEAN, b \in Blocks :
          ConfirmPaymentCall("w2", p, stale, b)
    \/ \E w \in Workers, ok \in BOOLEAN : ConfirmPayment(w, ok)
    \/ \E w \in Workers, o \in GetInvoiceOutcomes : ConfirmGetInvoice(w, o)
    \/ \E w \in Workers, ok \in BOOLEAN : ConfirmUpdateStatus(w, ok)
    \/ \E w \in Workers : Return(w)
    \/ \E uid \in InvoiceUids, o \in CreateInvoiceOutcomes : CreateInvoiceStep(uid, 5, o)
    \/ \E uid \in InvoiceUids, acct \in SessionAccounts,
          o \in {"ok", "invoice_read_failed"}, ok \in BOOLEAN :
          CancelInvoiceStep(uid, acct, o, ok)

\* invoices.account_id is a 64-bit column: the invoice is of account 5 or of account 21
InitConfirm == InitWith({5, 21})

SpecConfirm == InitConfirm /\ [][NextConfirm]_vars

\* prices the refresher can store
NewPrices == {<<"BTC", 40000>>, <<"BTC", 20000>>, <<"ETH", 2500>>, <<"ETH", 3000>>}

\* the invoice engine: client c1 creates invoices, client c2 reads them
NextOptions ==
    \/ \E uid \in InvoiceUids, acct \in {3, 4, 5, 6, 7}, amount \in Amounts, ok \in BOOLEAN :
          CreateInvoiceInsert("c1", uid, acct, amount, ok)
    \/ \E o \in {"ok", "account_failed", "persist_failed"} : CreateInvoiceOptions("c1", o)
    \/ \E uid \in InvoiceUids, o \in GetInvoiceOutcomes : FetchInvoice("c2", uid, o)
    \/ Tick
    \/ \E quote \in NewPrices : SetPrice(quote[1], quote[2])

SpecOptions == Init /\ [][NextOptions]_vars

\* the price updater beside the price feed
NextPrices ==
    \/ \E ok \in BOOLEAN, rows \in RowOrders : RefreshPrices(ok, rows)
    \/ \E quote \in NewPrices \cup {<<"BSV", 5000>>, <<"BSV", 6000>>} :
          SetPrice(quote[1], quote[2])
    \/ Tick

SpecPrices == Init /\ [][NextPrices]_vars

\* the coin catalog: two tasks, each looking up a coin of the table or one that is none,
\* or refreshing the catalog
NextCoins ==
    \/ \E t \in CoinTasks, currency \in {"BTC", "ETH", "XYZ"} : GetCoin(t, currency, currency)
    \/ \E t \in CoinTasks : RefreshCoins(t)
    \/ \E t \in CoinTasks : EnsureCoinsLoaded(t)
    \/ \E t \in CoinTasks, ok \in BOOLEAN : LoadCoins(t, ok)
    \/ \E t \in CoinTasks : ReadCoin(t)
    \/ \E t \in CoinTasks : CoinReturn(t)

SpecCoins == Init /\ [][NextCoins]_vars

\* the pairs a conversion is asked for: priced in one direction, in both, or in none
UnitPairs == {<<"USD", "BTC">>, <<"BTC", "USD">>, <<"USD", "ETH">>, <<"USD", "BSV">>,
              <<"BSV", "USD">>, <<"BSV", "BTC">>, <<"USD", "XYZ">>}

\* the unit functions, applied to every argument of the small sets
NextUnits ==
    \/ \E decimal \in UnitDecimals, coin \in {Some(c) : c \in UnitCoins} \cup {NoValue} :
          ToSatoshisCall(decimal, coin)
    \/ \E coin \in UnitCoins, amount \in {5, 99, 250, 10000} :
          GetFeeCall(coin.currency, amount)
    \/ \E pair \in UnitPairs, value \in UnitDecimals : ConvertCall(pair[1], pair[2], value)
    \/ ConvertBackCall

SpecUnits == Init /\ [][NextUnits]_vars

\* the connections, with the writer task of each scheduled whenever its channel wakes it
SpecWriter ==
    /\ Init
    /\ [][Next]_vars
    /\ \A s \in SessionIds : WF_vars(WriterStops(s))

\* one connection and the block consumer, each task scheduled again and again: a step
\* that stays possible is eventually taken
NextDeliver ==
    \/ Connections({"s1"}, {NoHeader})
    \/ \E b \in Blocks, txids \in TxidLists : ProcessBlock("w1", b, txids)
    \/ \E ok \in BOOLEAN : NextTx("w1", ok)
    \/ \E ok \in BOOLEAN : ConfirmPayment("w1", ok)
    \/ \E o \in GetInvoiceOutcomes : ConfirmGetInvoice("w1", o)
    \/ \E ok \in BOOLEAN : ConfirmUpdateStatus("w1", ok)
    \/ Return("w1")

SpecDeliver ==
    /\ Init
    /\ [][NextDeliver]_vars
    /\ WF_vars(\E ok \in BOOLEAN : NextTx("w1", ok))
    /\ WF_vars(\E ok \in BOOLEAN : ConfirmPayment("w1", ok))
    /\ WF_vars(\E o \in GetInvoiceOutcomes : ConfirmGetInvoice("w1", o))
    /\ WF_vars(\E ok \in BOOLEAN : ConfirmUpdateStatus("w1", ok))
    /\ WF_vars(Return("w1"))
    /\ WF_vars(WriterSend("s1"))

----------------------------------------------------------------------------
(* Properties of the subscription registry and the sessions *)

Open(s) == session[s].state = "open"
UnsubscribedResponse(sub) ==
    Resp("success", "Unsubscribed from " \o sub.sub_type \o " " \o sub.id, NoData)
RoundTrip(s, sub) == Unsubscribe(Subscribe(subscriptions, s, sub), s, sub)

\* C1: every key present in the subscription map is mapped to a non-empty set of
\* session ids, after any sequence of subscribe, unsubscribe and connection close.
SubscriberSetsNonEmpty == \A sub \in DOMAIN subscriptions : subscriptions[sub] # {}

\* C1 witness: a session's unsubscribe has removed the last subscriber of a key (the
\* key is gone) while another key is still present.
LastSubscriberRemoved ==
    \E s \in SessionIds, sub \in Subscription :
        /\ outbox[s] # <<>> /\ outbox[s][Len(outbox[s])] = UnsubscribedResponse(sub)
        /\ sub \notin DOMAIN subscriptions
        /\ DOMAIN subscriptions # {}

\* C2, as claimed: in every reachable registry state, also one in which s is already
\* subscribed to (T, I), subscribe(s, T, I) then unsubscribe(s, T, I) gives the map back.
RoundTripAlwaysRestores ==
    \A s \in SessionIds, sub \in Subscription : Open(s) => RoundTrip(s, sub) = subscriptions

\* C2, amended: subscribe then unsubscribe gives the map back when s was not subscribed
\* to (T, I) before; when it was, the result is the map with s unsubscribed from (T, I).
RoundTripRestoresUnlessSubscribed ==
    \A s \in SessionIds, sub \in Subscription :
        Open(s) =>
            IF s \in GetSubscribers(subscriptions, sub)
            THEN /\ RoundTrip(s, sub) # subscriptions
                 /\ s \notin GetSubscribers(RoundTrip(s, sub), sub)
                 /\ \A other \in Subscription \ {sub} :
                       GetSubscribers(RoundTrip(s, sub), other)
                           = GetSubscribers(subscriptions, other)
            ELSE RoundTrip(s, sub) = subscriptions

\* C2 witness: a session that has just unsubscribed from a key another session is
\* still subscribed to, so the round trip from here must restore the other's set.
RoundTripOverSharedKey ==
    \E s \in SessionIds, sub \in Subscription :
        /\ Open(s)
        /\ outbox[s] # <<>> /\ outbox[s][Len(outbox[s])] = UnsubscribedResponse(sub)
        /\ sub \in DOMAIN subscriptions
        /\ s \notin subscriptions[sub]
        /\ RoundTrip(s, sub) = subscriptions

\* C3, as claimed: once a session's connection has terminated, the session is not in
\* the sessions map and no subscriber set of the registry contains its id.
ClosedSessionPurged ==
    \A s \in SessionIds :
        session[s].state = "closed" =>
            /\ s \notin DOMAIN sessions
            /\ \A sub \in DOMAIN subscriptions : s \notin subscriptions[sub]

\* C9: once bound, a session's account_id never changes, whatever commands it sends,
\* and a session with no token or a token the store maps to no account is never
\* authenticated.
AccountIdImmutable ==
    /\ [](\A s \in SessionIds :
            /\ session[s].auth_token \notin DOMAIN AccessTokens
                  => session[s].account_id = NoAccount
            /\ s \in DOMAIN sessions => sessions[s].account_id = session[s].account_id)
    /\ [][\A s \in SessionIds :
            session[s].state # "new" => session'[s].account_id = session[s].account_id]_vars

\* C9 witness: an authenticated session that has handled a command, and is still bound
\* to the account of its token.
AuthenticatedSessionAnswered ==
    \E s \in SessionIds :
        /\ Open(s) /\ outbox[s] # <<>>
        /\ session[s].auth_token \in DOMAIN AccessTokens
        /\ session[s].account_id = SomeAccount(AccessTokens[session[s].auth_token])

Unauthenticated(s) == session[s].account_id = NoAccount

\* C10, as claimed: create_invoice on an unauthenticated session is answered with
\* {"status":"error","message":"Unauthorized: API key required"} and the store is unchanged.
UnauthorizedCreateAsSpecified ==
    [][\A s \in SessionIds, uid \in InvoiceUids, o \in CreateInvoiceOutcomes :
          (Unauthenticated(s) /\ writer[s] = "running" /\ HandleCreateInvoice(s, uid, o))
             => /\ outbox'[s] = Append(outbox[s],
                     [type |-> None, status |-> "error",
                      message |-> "Unauthorized: API key required", data |-> NoData])
                /\ UNCHANGED storeVars]_vars

\* C10, amended: the answer's message is "Unauthorized: API key required: See
\* https://www.anypayx.com/developer/websockets/authentication"; the store is unchanged.
UnauthorizedCreateChangesNothing ==
    [][\A s \in SessionIds, uid \in InvoiceUids, o \in CreateInvoiceOutcomes :
          (Unauthenticated(s) /\ HandleCreateInvoice(s, uid, o))
             => /\ UNCHANGED storeVars
                /\ writer[s] = "running" =>
                     outbox'[s] = Append(outbox[s],
                       [type |-> None, status |-> "error",
                        message |-> "Unauthorized: API key required: See https://www.anypayx.com/developer/websockets/authentication",
                        data |-> NoData])]_vars

\* C10 witness: an unauthenticated session holds the answer to its create_invoice and
\* the store holds what it held at the start.
UnauthorizedCreateAnswered ==
    \E s \in SessionIds :
        /\ Open(s) /\ Unauthenticated(s)
        /\ outbox[s] # <<>> /\ outbox[s][Len(outbox[s])] = UnauthorizedCreateResponse
        /\ DOMAIN invoices = {"inv_1"} /\ payment_options = <<>>

----------------------------------------------------------------------------
(* Properties of the confirmation pipeline *)

Returned(w) == call[w].pc = "returned"
HasHash(row) == row.confirmation_hash # NoValue

\* C4: confirm_payment on a payment whose confirmation_hash is already set returns that
\* payment with its confirmation fields as they were and writes nothing: neither the
\* payment row nor the invoice status. This holds for a payment value handed over with
\* its hash set, and for a stale value of a row that was confirmed before the call.
ConfirmIsIdempotent ==
    \A w \in Workers :
        Returned(w) =>
            /\ HasHash(call[w].payment) =>
                  /\ call[w].result = "ok"
                  /\ call[w].ret = call[w].payment
                  /\ call[w].wrote = {}
            /\ HasHash(call[w].pre) =>
                  /\ call[w].wrote = {}
                  /\ HasHash(payments[call[w].payment.id])
                  /\ payments[call[w].payment.id].confirmation_hash
                        = call[w].pre.confirmation_hash
                  /\ payments[call[w].payment.id].confirmation_height
                        = call[w].pre.confirmation_height
                  /\ payments[call[w].payment.id].confirmation_date
                        = call[w].pre.confirmation_date

\* C4 witness: a second confirm_payment, for another block, on a payment the first one
\* confirmed and that set the invoice to paid, has returned.
SecondConfirmReturned ==
    \E w \in Workers :
        /\ Returned(w)
        /\ HasHash(call[w].pre)
        /\ call[w].pre.confirmation_hash # Some(call[w].conf.confirmation_hash)
        /\ writes[call[w].payment.id].invoice = 1

EventsFor(p) ==
    {i \in 1..Len(eventBus) :
        /\ eventBus[i].topic = "payment.confirmed"
        /\ eventBus[i].payload.payment.txid = payments[p].txid
        /\ eventBus[i].payload.invoice.uid = payments[p].invoice_uid}

\* C5, as claimed: when a payment is confirmed exactly one payment.confirmed event with
\* that payment's txid and invoice uid is on the event bus, and never a second one.
OneEventPerConfirmation ==
    \A p \in PaymentIds :
        /\ Cardinality(EventsFor(p)) <= 1
        /\ (\E w \in Workers :
               /\ Returned(w) /\ call[w].result = "ok"
               /\ call[w].payment.id = p /\ "invoice" \in call[w].wrote)
              => Cardinality(EventsFor(p)) = 1

\* C6: when two workers run confirm_payment on the same unconfirmed payment at the same
\* time, at most one performs the payment update and at most one sets the invoice
\* status; a worker whose update affected no row writes nothing and returns an error.
AtMostOneWorkerWrites ==
    /\ \A p \in PaymentIds : writes[p].payment <= 1 /\ writes[p].invoice <= 1
    /\ \A w \in Workers :
          /\ "invoice" \in call[w].wrote => "payment" \in call[w].wrote
          /\ (Returned(w) /\ ~HasHash(call[w].payment) /\ "payment" \notin call[w].wrote)
                => call[w].result = "err"

\* C6 witness: both workers were handed the same payment while it was unconfirmed; one
\* wrote the payment and the invoice, the other returned an error having written nothing.
RaceLost ==
    \E won \in Workers, lost \in Workers :
        /\ call[won].payment.id = call[lost].payment.id
        /\ ~HasHash(call[won].pre) /\ ~HasHash(call[lost].pre)
        /\ Returned(won) /\ call[won].wrote = {"payment", "invoice"}
        /\ Returned(lost) /\ call[lost].result = "err" /\ call[lost].wrote = {}

\* C7: an invoice whose status confirmation has set to paid has a payment row with a
\* non-null confirmation_hash.
PaidHasConfirmedPayment ==
    \A uid \in DOMAIN invoices :
        invoices[uid].status = "paid" =>
            \E p \in DOMAIN payments :
                payments[p].invoice_uid = uid /\ HasHash(payments[p])

\* C7 witness: confirmation has set an invoice to paid.
InvoicePaidByConfirmation ==
    \E w \in Workers :
        /\ Returned(w) /\ "invoice" \in call[w].wrote
        /\ call[w].payment.invoice_uid \in DOMAIN invoices
        /\ invoices[call[w].payment.invoice_uid].status = "paid"

\* C8, as claimed: an invoice's uid never changes, and its status changes only from
\* unpaid: to paid by confirmation or to cancelled by cancel_invoice.
StatusChangesOnlyFromUnpaid ==
    [][\A uid \in DOMAIN invoices :
          /\ uid \in DOMAIN invoices'
          /\ invoices'[uid].uid = invoices[uid].uid
          /\ invoices'[uid].status # invoices[uid].status
                => /\ invoices[uid].status = "unpaid"
                   /\ invoices'[uid].status \in {"paid", "cancelled"}]_vars

----------------------------------------------------------------------------
(* Properties of cancel_invoice *)

\* C11, as claimed: whenever the invoice's account id (64 bits) and the requesting
\* account id (32 bits) are not equal, cancel_invoice fails with "Unauthorized to cancel
\* this invoice" and leaves the invoice status unchanged.
CancelOnlyByOwner ==
    [][\A uid \in DOMAIN invoices, acct \in SessionAccounts :
          (/\ invoices[uid].account_id # acct
           /\ CancelInvoiceStep(uid, acct, "ok", TRUE))
             => /\ invoices'[uid].status = invoices[uid].status
                /\ CancelInvoice(uid, acct, "ok", TRUE).message
                      = "Unauthorized to cancel this invoice"]_vars

----------------------------------------------------------------------------
(* Properties of the payment options *)

\* every payment option a client was handed or the store holds
OptionsSeen ==
    {payment_options[i] : i \in 1..Len(payment_options)}
        \cup UNION {{create[c].options[i] : i \in 1..Len(create[c].options)} : c \in Clients}
        \cup UNION {{fetched[c].options[i] : i \in 1..Len(fetched[c].options)} : c \in Clients}

PositiveOptionAmounts ==
    \A o \in OptionsSeen :
        (o.invoice_uid \in DOMAIN invoices /\ invoices[o.invoice_uid].amount > 0)
            => o.amount > 0 /\ \A k \in 1..Len(o.outputs) : o.outputs[k].amount > 0

----------------------------------------------------------------------------
(* Properties of the delivery of events *)

SubscribedTo(s, uid) ==
    s \in GetSubscribers(subscriptions, [sub_type |-> "invoice", id |-> uid])

\* a payment.confirmed event is in the channel of session s
Received(s, topic) == \E i \in 1..Len(outbox[s]) : outbox[s][i].type = topic

\* C14, as claimed: when the block consumer confirms the payment of invoice inv_1 while
\* session s1 is subscribed to that invoice, s1 eventually receives the payment.confirmed
\* event and the invoice is paid, unless the session closes or unsubscribes, its
\* writer task ends, or the store fails the confirmation.
SubscriberReceivesConfirmation ==
    (/\ Open("s1") /\ SubscribedTo("s1", "inv_1")
     /\ call["w1"].pc = "confirm" /\ call["w1"].payment.invoice_uid = "inv_1")
        ~> \/ Received("s1", "payment.confirmed") /\ invoices["inv_1"].status = "paid"
           \/ ~Open("s1") \/ writer["s1"] # "running"
           \/ ~SubscribedTo("s1", "inv_1")
           \/ Returned("w1") /\ call["w1"].result = "err"

\* C15, as claimed: when a send on a session's channel fails, that session is removed
\* from the sessions map and from every subscriber set. (The only sends of the server
\* are the responses to commands; no step delivers an event to several subscribers.)
SendFailureRemovesSession ==
    [][\A s \in SessionIds, sub \in Subscription :
          (/\ writer[s] # "running"
           /\ HandleSubscribe(s, sub) \/ HandleUnsubscribe(s, sub))
             => /\ s \notin DOMAIN sessions'
                /\ \A k \in DOMAIN subscriptions' : s \notin subscriptions'[k]]_vars

----------------------------------------------------------------------------
(* Properties of reading an invoice *)

RowExpiredAt(row, time) == row.expires < time

\* C16, as claimed: once create_invoice has succeeded for an account with an address, a
\* later fetch_invoice of that invoice which the store serves and which reads no expired
\* option returns exactly the payment options create_invoice returned, none missing
\* and none twice.
FetchReturnsCreatedOptions ==
    \A c, r \in Clients :
        (/\ create[c].pc = "idle" /\ create[c].result = "ok" /\ create[c].options # <<>>
         /\ fetched[r].uid = create[c].uid /\ fetched[r].at >= create[c].at
         /\ fetched[r].kind = "ok" /\ fetched[r].store = "ok"
         /\ fetched[r].read # <<>>
         /\ \A i \in 1..Len(fetched[r].read) : ~RowExpiredAt(fetched[r].read[i], fetched[r].at))
            => fetched[r].options = create[c].options

\* C17, as claimed: while create_invoice is between the insert of the invoice row and
\* the insert of its payment options, no fetch_invoice has found the invoice without
\* its payment options.
FetchNeverSeesBareInvoice ==
    \A c, r \in Clients :
        (/\ create[c].pc = "options" /\ fetched[r].uid = create[c].uid
         /\ fetched[r].kind = "ok" /\ fetched[r].store = "ok"
         /\ Addresses[invoices[fetched[r].uid].account_id] # <<>>)
            => fetched[r].options # <<>>

----------------------------------------------------------------------------
(* Properties of the amounts *)

\* C18, as claimed: an option built for an invoice of amount A in denomination USD and an
\* address of currency C priced at P USD has amount trunc((A / P) * 10^precision(C)).
\* (P is held in units of 10^-MAX_DECIMALS.)
OptionAmountIsQuotient ==
    [][\A c \in Clients :
          (create[c].pc = "options" /\ create'[c].result = "ok")
             => \A i \in 1..Len(create'[c].options) :
                   LET o == create'[c].options[i]
                       A == invoices[o.invoice_uid].amount
                       P == prices[<<"USD", o.currency>>]
                   IN o.amount = (A * Pow10(Precision(o.chain)) * Pow10(MAX_DECIMALS)) \div P]_vars

----------------------------------------------------------------------------
(* Properties of the refresh of expired options *)

\* what refresh_payment_option must keep of an option
SameIdentity(a, b) ==
    /\ a.invoice_uid = b.invoice_uid /\ a.chain = b.chain /\ a.currency = b.currency
    /\ a.address = b.address /\ a.created_at = b.created_at

\* C19: when get_invoice reads an option that has expired (and the store serves every
\* call), the option is returned and written to the store with amount, fee and
\* outputs[0].amount recomputed from the current price, updated_at = now and
\* expires = now + 15 minutes, and with the invoice_uid, chain, currency, address and
\* created_at of the expired option. (The refreshed option is inserted as a new row; the
\* expired row stays in the table.)
ExpiredOptionRefreshed ==
    [][\A r \in Clients, uid \in DOMAIN invoices :
          FetchInvoice(r, uid, "ok")
             => LET read == RowsOf(uid)
                    got == fetched'[r].options
                IN /\ Len(got) = Len(read)
                   /\ payment_options' = payment_options \o got
                   /\ \A i \in 1..Len(read) :
                         IF read[i].expires < now
                         THEN /\ SameIdentity(got[i], read[i])
                              /\ {got[i].amount} =
                                    PaymentAmount(invoices[uid], read[i].currency, read[i].chain)
                              /\ got[i].fee = GetFee(read[i].currency, got[i].amount)
                              /\ Len(got[i].outputs) = 1
                              /\ got[i].outputs[1].amount = got[i].amount
                              /\ got[i].outputs[1].address = read[i].address
                              /\ got[i].updated_at = now
                              /\ got[i].expires = now + ExpiryMinutes
                         ELSE got[i] = read[i]]_vars

\* C19 witness: a fetch has read an expired option and returned it refreshed, with
\* another amount because the price had changed.
FetchedRefreshedOption ==
    \E r \in Clients :
        /\ fetched[r].kind = "ok" /\ fetched[r].store = "ok"
        /\ \E i \in 1..Len(fetched[r].read) :
              /\ fetched[r].read[i].expires < fetched[r].at
              /\ fetched[r].options[i].amount # fetched[r].read[i].amount
              /\ fetched[r].options[i].amount > 0
              /\ fetched[r].options[i].updated_at = fetched[r].at
              /\ fetched[r].options[i].updated_at > fetched[r].options[i].created_at

----------------------------------------------------------------------------
(* Properties of convert_price *)

\* the response to a convert_price command whose error message starts with `prefix`
ConversionAnswer(req, prefix) ==
    LET q == req.quote_currency
        b == req.base_currency
    IN IF <<b, q>> \in DOMAIN prices
       THEN Resp("success", None, ConversionData(req, req.quote_value * prices[<<b, q>>]))
       ELSE IF <<q, b>> \in DOMAIN prices
       THEN Resp("success", None,
                 ConversionData(req, (Reciprocal(prices[<<q, b>>]) * req.quote_value)
                                        \div Pow10(DivisionDigits - MAX_DECIMALS)))
       ELSE Resp("error", prefix \o "No price for " \o q \o " to " \o b, NoData)

Answered(s, req, prefix) ==
    (HandleConvertPrice(s, req, TRUE) /\ writer[s] = "running")
        => outbox'[s] = Append(outbox[s], ConversionAnswer(req, prefix))

\* C20, as claimed: convert uses the price row (base_currency = base, currency = quote)
\* when there is one, else the inverse row (base_currency = quote, currency = base) as
\* quote_value * (1 / value), and a convert_price command for a pair priced in neither
\* direction is answered with status error and message "No price for <quote> to <base>".
ConvertPriceAsSpecified ==
    [][\A req \in ConversionRequests : Answered("s1", req, "")]_vars

\* C20, amended: the same lookup order, and the error response carries the message
\* "Conversion failed: No price for <quote> to <base>".
ConvertPriceAnswered ==
    [][\A req \in ConversionRequests : Answered("s1", req, "Conversion failed: ")]_vars

\* C20 witness: a convert_price command for USD to XYZ, priced in neither direction,
\* has been answered with the error response.
UnpricedPairAnswered ==
    /\ outbox["s1"] # <<>>
    /\ outbox["s1"][Len(outbox["s1"])]
          = Resp("error", "Conversion failed: No price for USD to XYZ", NoData)

----------------------------------------------------------------------------
(* Properties of create_invoice *)

\* C21: when the account of the invoice has no available address and the store serves
\* every call, create_invoice writes no payment option, keeps the invoice it inserted and
\* returns it with an empty list of payment options.
NoAddressNoOptions ==
    [][\A c \in Clients :
          (/\ create[c].pc = "options"
           /\ Addresses[invoices[create[c].uid].account_id] = <<>>
           /\ CreateInvoiceOptions(c, "ok"))
             => /\ create'[c].result = "ok" /\ create'[c].options = <<>>
                /\ payment_options' = payment_options
                /\ create[c].uid \in DOMAIN invoices'
                /\ invoices'[create[c].uid] = invoices[create[c].uid]]_vars

\* C21 witness: create_invoice has returned for an invoice of account 5, which has no
\* address, with no payment options, and the invoice is stored.
InvoiceWithoutOptionsCreated ==
    \E c \in Clients :
        /\ create[c].pc = "idle" /\ create[c].result = "ok" /\ create[c].options = <<>>
        /\ create[c].uid \in DOMAIN invoices
        /\ invoices[create[c].uid].account_id = 5
        /\ RowsOf(create[c].uid) = <<>>

----------------------------------------------------------------------------
(* Properties of the order of responses *)

\* C22: every step changes the channel of at most one session, and changes it in one of
\* three ways: the response to the command just handled is put behind the responses
\* still waiting, the writer task writes the oldest waiting response to the socket, or
\* the writer task ends and nothing more is written. So the responses of a session reach
\* the socket in the order of its commands, whatever the other sessions and the writer do.
ResponsesInCommandOrder ==
    [][/\ Cardinality({s \in SessionIds : outbox'[s] # outbox[s]}) <= 1
       /\ \A s \in SessionIds :
             \/ outbox'[s] = outbox[s]
             \/ /\ \E sub \in Subscription : HandleSubscribe(s, sub) \/ HandleUnsubscribe(s, sub)
                /\ Len(outbox'[s]) = Len(outbox[s]) + 1
                /\ SubSeq(outbox'[s], 1, Len(outbox[s])) = outbox[s]
             \/ WriterSend(s) /\ outbox'[s] = Tail(outbox[s])
             \/ outbox'[s] = <<>> /\ writer[s] = "running" /\ writer'[s] = "exited"]_vars

\* C22 witness: two different responses of one session wait in its channel while the
\* other session is open as well.
TwoResponsesWaiting ==
    \E s, t \in SessionIds :
        /\ s # t /\ Open(s) /\ Open(t) /\ writer[s] = "running"
        /\ Len(outbox[s]) = 2 /\ outbox[s][1] # outbox[s][2]
        /\ outbox[t] # <<>>

----------------------------------------------------------------------------
(* Properties of frames that are no command *)

\* C23: a text frame that cannot be read as a command is answered (while the writer
\* task of the session runs) with status error and message "Invalid message format"; the
\* registry, the sessions map and the store are unchanged, and the session stays open
\* with its writer running, so that its next commands are handled.
InvalidFrameAnswered ==
    [][(HandleInvalid("s1") /\ writer["s1"] = "running")
          => /\ outbox'["s1"] = Append(outbox["s1"],
                                   Resp("error", "Invalid message format", NoData))
             /\ subscriptions' = subscriptions /\ sessions' = sessions
             /\ invoices' = invoices /\ payment_options' = payment_options
             /\ session' = session /\ writer' = writer
             /\ session'["s1"].state = "open"]_vars

\* C23 witness: an unreadable frame was answered and the ping sent after it on the same
\* session was answered too.
CommandAfterInvalidFrame ==
    /\ Open("s1") /\ "s1" \in DOMAIN sessions
    /\ outbox["s1"] = <<Resp("error", "Invalid message format", NoData), PongResponse>>

----------------------------------------------------------------------------
(* Properties of failures inside a handler *)

\* a command of session s during which the store fails a price or coin lookup
LookupFails(s) ==
    \/ \E req \in ConversionRequests : HandleConvertPrice(s, req, FALSE)
    \/ \E uid \in InvoiceUids : HandleCreateInvoice(s, uid, "lookup_panicked")

\* C24, as claimed: when the store fails a price or coin lookup during convert_price or
\* create_invoice, the session (its writer running) is sent a response with status
\* error, stays open and stays in the sessions map.
LookupFailureAnswered ==
    [][(LookupFails("s1") /\ writer["s1"] = "running")
          => /\ Len(outbox'["s1"]) = Len(outbox["s1"]) + 1
             /\ outbox'["s1"][Len(outbox'["s1"])].status = "error"
             /\ session'["s1"].state = "open"
             /\ "s1" \in DOMAIN sessions']_vars

----------------------------------------------------------------------------
(* Properties of reading an invoice, continued *)

SomeExpiredAt(rows, time) == \E i \in 1..Len(rows) : RowExpiredAt(rows[i], time)

\* C25, as claimed: when get_invoice reads expired options and the batch persist of the
\* refreshed options fails, it still succeeds and returns the options it read from the
\* store, unrefreshed.
FailedRefreshReturnsRead ==
    \A r \in Clients :
        (/\ fetched[r].kind = "ok" /\ fetched[r].store = "persist_failed"
         /\ SomeExpiredAt(fetched[r].read, fetched[r].at))
            => fetched[r].options = fetched[r].read

\* C26, as claimed: a get_invoice that reads no expired option leaves the payment_options
\* table as it was.
UnexpiredReadWritesNothing ==
    [][\A r \in Clients, uid \in DOMAIN invoices :
          (FetchInvoice(r, uid, "ok") /\ ~SomeExpiredAt(RowsOf(uid), now))
             => payment_options' = payment_options]_vars

\* C27: when update_expired_payment_options returns (here inside a get_invoice the store
\* serves), it returns as many options as it was given, the i-th with the currency and
\* chain of the i-th given, and every option given that has not expired unchanged.
UpdateReturnsEveryOption ==
    [][\A r \in Clients, uid \in DOMAIN invoices :
          FetchInvoice(r, uid, "ok")
             => LET given == RowsOf(uid)
                    returned == fetched'[r].options
                IN /\ Len(returned) = Len(given)
                   /\ \A i \in 1..Len(given) :
                         /\ returned[i].currency = given[i].currency
                         /\ returned[i].chain = given[i].chain
                         /\ ~(given[i].expires < now) => returned[i] = given[i]]_vars

\* C27 witness: an update was given an expired option and one that had not expired, and
\* returned the first refreshed and the second as it was.
MixedUpdateReturned ==
    \E r \in Clients :
        /\ fetched[r].kind = "ok" /\ fetched[r].store = "ok"
        /\ Len(fetched[r].read) = 2 /\ Len(fetched[r].options) = 2
        /\ RowExpiredAt(fetched[r].read[1], fetched[r].at)
        /\ ~RowExpiredAt(fetched[r].read[2], fetched[r].at)
        /\ fetched[r].options[1] # fetched[r].read[1]
        /\ fetched[r].options[2] = fetched[r].read[2]

----------------------------------------------------------------------------
(* Properties of the price cache *)

\* C28, as claimed: no step removes an entry of the price cache, a refresh that fails
\* leaves the cache as it was, and after a refresh that succeeds the cache answers, for
\* every (base, quote) pair of the prices table, with that pair's own price.
CacheHoldsEveryPair ==
    [][/\ DOMAIN price_cache \subseteq DOMAIN price_cache'
       /\ \A rows \in RowOrders :
             /\ RefreshPrices(FALSE, rows) => price_cache' = price_cache
             /\ RefreshPrices(TRUE, rows)
                   => \A pair \in DOMAIN prices :
                         GetCachedPrice(price_cache', pair[2]) = {PriceOf(pair)}]_vars

----------------------------------------------------------------------------
(* Properties of blocks without a payment *)

\* C29: a payment row, a confirmation write or an event changes only in a step of a
\* worker that is confirming a payment: one handed to confirm_payment directly, or the
\* unconfirmed payment found for the txid at the head of the block's list. So a block
\* whose list is empty, or holds no txid of an unconfirmed payment, changes nothing; its
\* lookup steps leave payments, invoices and events as they are.
BlockWithoutPaymentChangesNothing ==
    [][/\ (payments' # payments \/ writes' # writes \/ eventBus' # eventBus)
            => \E w \in Workers :
                  /\ call[w].pc \in {"confirm", "update_status"} /\ call'[w] # call[w]
                  /\ \/ call[w].direct
                     \/ /\ call[w].txids # <<>>
                        /\ Head(call[w].txids) = call[w].payment.txid
                        /\ call[w].pre.txid = call[w].payment.txid
                        /\ call[w].pre.confirmation_hash = NoValue
       /\ \A w \in Workers :
             (call[w].pc \in {"idle", "next_tx"} /\ call'[w] # call[w])
                => /\ payments' = payments /\ invoices' = invoices
                   /\ eventBus' = eventBus /\ writes' = writes]_vars

\* C29 witness: the block consumer is at the end of the list of block H1, which was empty
\* or held no txid of an unconfirmed payment, and nothing has been written.
BlockWalkedWithoutWrite ==
    /\ call["w1"].pc = "next_tx" /\ call["w1"].txids = <<>>
    /\ call["w1"].conf.confirmation_hash = "H1"
    /\ payments = PaymentsInit
    /\ \A p \in PaymentIds : writes[p].payment = 0 /\ writes[p].invoice = 0
    /\ \A uid \in DOMAIN invoices : invoices[uid].status = "unpaid"
    /\ eventBus = <<>>

----------------------------------------------------------------------------
(* Properties of the uri of a payment option *)

\* payment::uri PROTOCOLS, for the currencies of the model; any other currency has no entry
PROTOCOLS == [c \in {"BTC", "ETH", "BSV"} |->
                 IF c = "BTC" THEN "bitcoin" ELSE IF c = "ETH" THEN "ethereum" ELSE "pay"]

\* payment::uri::get_base_url with BASE_URL unset
BaseUrl == "https://api.anypayx.com"

\* payment::uri::compute_invoice_uri, the function of the file no module declares
ProtocolInvoiceUri(currency, uid) ==
    LET protocol == IF currency \in DOMAIN PROTOCOLS THEN PROTOCOLS[currency] ELSE "pay"
    IN protocol \o ":?r=" \o BaseUrl \o "/r/" \o uid

\* C30, as claimed: the uri of every payment option built for an invoice is
\* "<protocol>:?r=<base_url>/r/<invoice uid>", the protocol taken from the option's
\* currency by the table (BTC bitcoin, ETH ethereum, BSV pay, anything else pay) and the
\* base url being https://api.anypayx.com.
OptionUriNamesProtocol ==
    \A o \in OptionsSeen : o.uri = ProtocolInvoiceUri(o.currency, o.invoice_uid)

\* the uri the program gives an invoice paid in a currency of the addresses
AnypayUri == [c \in {"BTC", "ETH"}, uid \in InvoiceUids |->
                 IF c = "BTC"
                 THEN (IF uid = "inv_1" THEN "anypay:btc_inv_1" ELSE "anypay:btc_inv_2")
                 ELSE (IF uid = "inv_1" THEN "anypay:eth_inv_1" ELSE "anypay:eth_inv_2")]

\* C31: compute_invoice_uri returns "anypay:", the lower-cased currency, an underscore
\* and the uid: every option built or refreshed for an invoice carries that string for its
\* currency and its invoice's uid (for BTC and inv_1, "anypay:btc_inv_1").
OptionUriIsAnypayUri ==
    \A o \in OptionsSeen :
        /\ <<o.currency, o.invoice_uid>> \in DOMAIN AnypayUri
        /\ o.uri = AnypayUri[o.currency, o.invoice_uid]

\* C31 witness: create_invoice has returned a BTC option with the uri of its invoice,
\* and the store holds it.
BtcUriStored ==
    /\ create["c1"].result = "ok" /\ create["c1"].options # <<>>
    /\ \E i \in 1..Len(payment_options) :
          /\ payment_options[i] = create["c1"].options[1]
          /\ payment_options[i].currency = "BTC"
          /\ payment_options[i].uri \in {"anypay:btc_inv_1", "anypay:btc_inv_2"}

----------------------------------------------------------------------------
(* Properties of a confirmation that fails half way *)

\* C32, as claimed: after every confirm_payment call, successful or failed, made while
\* no other call is running, the payment has a confirmation_hash if and only if its
\* invoice has status paid, or a later block holding the payment's txid still finds the
\* payment among the unconfirmed ones and can complete the transition.
ConfirmedOnlyWithPaidInvoice ==
    \A w \in Workers :
        (Returned(w) /\ \A v \in Workers \ {w} : call[v].pc = "idle") =>
            LET p == call[w].payment.id
                uid == payments[p].invoice_uid
                paid == uid \in DOMAIN invoices /\ invoices[uid].status = "paid"
            IN \/ HasHash(payments[p]) <=> paid
               \/ GetUnconfirmedPaymentByTxid(payments[p].txid) # {}

----------------------------------------------------------------------------
(* Properties of a create_invoice that fails half way *)

\* C33, as claimed: when create_invoice has failed after the invoice row was inserted
\* (get_account or the insert of the payment options failed), no invoice row of that
\* uid remains in the store.
FailedCreateLeavesNoInvoice ==
    \A c \in Clients :
        (create[c].pc = "idle" /\ create[c].result = "err" /\ create[c].uid # None)
            => create[c].uid \notin DOMAIN invoices

----------------------------------------------------------------------------
(* Properties of the coin catalog *)

\* C34, as claimed: a get_coin that returns without a store error returns the coin
\* whenever the coins table holds one under its key, whatever a concurrent refresh_coins
\* does.
LookupFindsEveryCoin ==
    \A t \in CoinTasks :
        (/\ coin_task[t].op = "get_coin" /\ coin_task[t].pc = "done"
         /\ coin_task[t].result = "ok" /\ coin_task[t].key \in DOMAIN CoinMap)
            => coin_task[t].coin = Some(CoinMap[coin_task[t].key])

----------------------------------------------------------------------------
(* Properties of the addresses an option is built for *)

\* C35, as claimed: the payment options create_invoice builds for an invoice hold at
\* most one option per (chain, currency), built for the first address of that pair.
OneOptionPerChainCurrency ==
    \A c \in Clients :
        \A i, j \in 1..Len(create[c].options) :
            (/\ create[c].options[i].chain = create[c].options[j].chain
             /\ create[c].options[i].currency = create[c].options[j].currency) => i = j

\* C36: when the store serves create_payment_options, it succeeds and returns and
\* persists exactly one option for each available address whose currency has a rate (a
\* price between the invoice's denomination and the currency, in either direction), in
\* address order; an address whose currency has no rate is skipped and nothing else is.
NoRateSkipsOnlyThatAddress ==
    [][\A c \in Clients :
          (create[c].pc = "options" /\ CreateInvoiceOptions(c, "ok")) =>
              LET acct == invoices[create[c].uid].account_id
                  addresses == IF AccountExists(acct) THEN Addresses[acct] ELSE <<>>
                  priced == SelectSeq(addresses, LAMBDA a :
                                \/ <<a.currency, Denomination(acct)>> \in DOMAIN prices
                                \/ <<Denomination(acct), a.currency>> \in DOMAIN prices)
                  options == create'[c].options
              IN (AccountExists(acct) /\ Len(payment_options) + Len(priced) <= MaxOptionRows)
                    => /\ create'[c].result = "ok"
                       /\ Len(options) = Len(priced)
                       /\ \A i \in 1..Len(priced) :
                             /\ options[i].address = priced[i].value
                             /\ options[i].currency = priced[i].currency
                             /\ options[i].chain = priced[i].chain
                       /\ payment_options' = payment_options \o options]_vars

\* C36 witness: create_invoice for account 7, whose first address is in a currency
\* without a rate, has returned the option of its second address alone, and the store
\* holds it.
UnpricedAddressSkipped ==
    /\ create["c1"].pc = "idle" /\ create["c1"].result = "ok"
    /\ create["c1"].uid \in DOMAIN invoices
    /\ invoices[create["c1"].uid].account_id = 7
    /\ Len(create["c1"].options) = 1
    /\ create["c1"].options[1].currency = "BTC"
    /\ create["c1"].options[1].address = "addr_btc"
    /\ \E i \in 1..Len(payment_options) : payment_options[i] = create["c1"].options[1]

----------------------------------------------------------------------------
(* Properties of the unit functions *)

\* C37, as claimed: to_satoshis scales the decimal amount by ten to the coin's precision
\* from the catalog when it has one, and otherwise by the default of the chain: 8 digits
\* (here 2) for BTC, BSV, DOGE and FB, 9 (here 3) for SOL, 6 (here 1) for stablecoins
\* and XRP, 18 (here 4) for the EVM chains; the result is truncated.
PrecisionFromCatalogOrChain ==
    (calc.op = "to_satoshis" /\ calc.result.kind = "ok") =>
        LET coin == CHOOSE c \in calc.args[2] : TRUE
            precision == IF coin.precision # NoValue THEN CHOOSE p \in coin.precision : TRUE
                         ELSE IF coin.chain \in {"BTC", "BSV", "DOGE", "FB"} THEN 2
                         ELSE IF coin.chain = "SOL" THEN 3
                         ELSE IF coin.chain \in {"XRP", "TRON"} THEN 1
                         ELSE 4
        IN calc.result.value = (calc.args[1] * Pow10(precision)) \div Pow10(MAX_DECIMALS)

\* C38, as claimed: the fee is floor(amount x fee_rate), the rate being 0.01% (here 1%)
\* for the currencies of the UTXO chains BTC, BSV, FB and DOGE and 0.1% (here 10%) for
\* every other one.
FeeRateByChainFamily ==
    calc.op = "get_fee" =>
        calc.result.value = IF calc.args[1] \in {"BTC", "BSV", "FB", "DOGE"}
                            THEN calc.args[2] \div 100
                            ELSE calc.args[2] \div 10

\* C39, as claimed: convert(Q, B, v) yielding v_base followed by convert(B, Q, v_base)
\* returns a value within one unit of the last decimal digit of v.
RoundTripWithinOneUnit ==
    (calc.op = "convert_back" /\ calc.result.kind = "ok") =>
        /\ calc.result.value - calc.args[3] <= 1
        /\ calc.args[3] - calc.result.value <= 1

----------------------------------------------------------------------------
(* Properties of the end of the writer task *)

\* C40: once a connection has terminated and its cleanup has run, its writer task
\* eventually exits: no clone of the session's sender is left to keep it waiting.
WriterExitsAfterCleanup ==
    \A s \in SessionIds :
        (session[s].state = "closed" /\ writer[s] = "running") ~> (writer[s] = "exited")

\* C40 witness: the cleanup of session s1 has run while a subscriber set still lists the
\* session; its writer task is waiting on the empty channel and no sender is left.
WriterWaitingAfterCleanup ==
    /\ session["s1"].state = "closed" /\ "s1" \notin DOMAIN sessions
    /\ writer["s1"] = "running" /\ outbox["s1"] = <<>>
    /\ SubscribedTo("s1", "inv_1")
    /\ SenderClones("s1") = {}

====
